---- MODULE Spec2Model ----
(***************************************************************************)
(* State-machine model of ChromaDBRetriever                                *)
(* (src/src/utils/db/chroma_retriever.py).                                 *)
(*                                                                         *)
(* Representation choices                                                  *)
(*  - A Python str is a sequence of one-character strings, so that         *)
(*    strip(), slicing, len() and join() are computed, not assumed.        *)
(*  - A float written with five decimals is an integer in units of        *)
(*    1/Scale (1e-5): the distance 0.29996 is 29996, the threshold 0.7 is  *)
(*    70000; it stands for the nearest double. The similarity is computed  *)
(*    on the exact binary values; round(x, 4) gives a multiple of 10       *)
(*    units.                                                               *)
(*  - A dict used as opaque metadata is a set of <<key, value>> pairs.     *)
(*  - A call's outcome is [kind, exc, value]: kind "return" carries the    *)
(*    returned value, kind "raise" the class name of the escaping error.   *)
(*  - A call that reaches await run_in_executor(...) takes three steps:    *)
(*    the coroutine suspends, the executor thread queries the backend, the *)
(*    event loop resumes the coroutine, which returns. Spec, SpecLifecycle,*)
(*    SpecStub, SpecRepeat, SpecLegacy and SpecRetrievers have one caller  *)
(*    that awaits each call before it makes the next; SpecConcurrent and   *)
(*    SpecLoop have several coroutines in flight.                          *)
(***************************************************************************)
EXTENDS Integers, Sequences, FiniteSets, TLC

VARIABLES
    phase,         \* "Uninitialized", "Ready", or "Failed" when __init__ raised
    store,         \* what the backend at persist_directory holds
    options,       \* self.options
    collection,    \* behaviour of the collection behind self.collection
    backendOps,    \* kinds of backend calls made so far
    queryCalls,    \* number of collection.query calls so far
    lastQueries,   \* number of collection.query calls of the last operation
    lastOp,        \* the public operation that returned or raised last; "none"
                   \* before the first call and while a call is in flight
    lastText,      \* its argument
    retrieved,     \* outcome of the retrieve step of the last operation
    combined,      \* outcome of the combine step of the last operation
    counted,       \* outcome of collection.count() in the last health_check
    result,        \* outcome of the last operation
    calls,         \* concurrent calls in flight: one record per coroutine; in
                   \* SpecRepeat the calls made, each with the list it built
    pending,       \* the coroutine of a sequential caller, suspended at its await
    lastResponse,  \* the query response the executor delivered most recently
    lastBackend,   \* the query and count calls the last operation made, in order
    agent,         \* the SimpleAgent object: provider, system prompt, tools, messages
    agentLog       \* model calls and tool runs of the agent's last process_message

vars == <<phase, store, options, collection, backendOps, queryCalls, lastQueries,
          lastOp, lastText, retrieved, combined, counted, result, calls,
          pending, lastResponse, lastBackend, agent, agentLog>>

-----------------------------------------------------------------------------
(* Bounds of the model *)

MaxHits == 2

MaxCalls == 2

(* Fixed-point scale: one unit is 1e-5 *)
Scale == 100000

(* round(_, 4) keeps 4 decimals: multiples of 10 units *)
RoundUnit == 10

(* content_preview keeps 100 characters; the summary 200 (197 + "...") *)
PreviewLen == 100

SummaryMax == 200

SummaryKeep == 197

-----------------------------------------------------------------------------
(* Strings *)

Rep(c, n) == [i \in 1..n |-> c]

(* The characters str.strip() removes: those for which str.isspace() is    *)
(* true. After the five that have an escape come U+000B, U+001C to U+001F, *)
(* U+0085, U+00A0 and U+1680, written as the characters themselves. The    *)
(* remaining ones (U+2000 to U+200A, U+2028, U+2029, U+202F, U+205F and    *)
(* U+3000) cannot be written in a string of this language, so no text of   *)
(* the model holds them.                                                   *)
Whitespace ==
    {" ", "\t", "\n", "\r", "\f",
     "", "", "", "", "", "", " ", " "}

(* The vertical tab, U+000B *)
VerticalTab == ""

RECURSIVE LStrip(_)
LStrip(s) ==
    IF s = <<>> THEN <<>>
    ELSE IF Head(s) \in Whitespace THEN LStrip(Tail(s)) ELSE s

RECURSIVE RStrip(_)
RStrip(s) ==
    IF s = <<>> THEN <<>>
    ELSE IF s[Len(s)] \in Whitespace THEN RStrip(SubSeq(s, 1, Len(s) - 1)) ELSE s

(* str.strip() *)
Strip(s) == RStrip(LStrip(s))

Digit(d) == <<"0", "1", "2", "3", "4", "5", "6", "7", "8", "9">>[d + 1]

(* str(n) for n >= 0, as an f-string formats an int *)
RECURSIVE IntToStr(_)
IntToStr(n) ==
    IF n < 10 THEN <<Digit(n)>>
    ELSE IntToStr(n \div 10) \o <<Digit(n % 10)>>

(* sep.join(parts) *)
RECURSIVE Join(_, _)
Join(sep, parts) ==
    IF parts = <<>> THEN <<>>
    ELSE IF Len(parts) = 1 THEN parts[1]
    ELSE parts[1] \o sep \o Join(sep, Tail(parts))

(* s.split(sep)[0]: the part of s before the first occurrence of sep *)
FirstPart(s, sep) ==
    LET starts == {i \in 1..(Len(s) - Len(sep) + 1) :
                      SubSeq(s, i, i + Len(sep) - 1) = sep}
    IN  IF starts = {} THEN s
        ELSE SubSeq(s, 1, (CHOOSE i \in starts : \A j \in starts : i <= j) - 1)

DocumentWord == <<"D", "o", "c", "u", "m", "e", "n", "t", " ">>

Separator == <<"\n", "\n", "-", "-", "-", "\n", "\n">>

Ellipsis == <<".", ".", ".">>

BlankLine == <<"\n", "\n">>

-----------------------------------------------------------------------------
(* Numbers *)

Min(a, b) == IF a < b THEN a ELSE b

(***************************************************************************)
(* IEEE 754 doubles. The distances, the threshold and 1 - min(distance,    *)
(* 1.0) are doubles in the code; the model keeps the exact binary value of *)
(* each as [neg, int, frac]: the sign, the integer part and the fraction   *)
(* as FracLimbs limbs of LimbBits bits, most significant first. A number   *)
(* written with five decimals (a distance 0.29996, written 29996) stands   *)
(* for the double nearest to it.                                           *)
(***************************************************************************)
Mantissa == 53

LimbBits == 14

FracLimbs == 5

FracBits == LimbBits * FracLimbs

RECURSIVE Pow2(_)
Pow2(n) == IF n = 0 THEN 1 ELSE 2 * Pow2(n - 1)

LimbBase == Pow2(LimbBits)

RECURSIVE BitLen(_)
BitLen(n) == IF n = 0 THEN 0 ELSE 1 + BitLen(n \div 2)

Double(neg, int, frac) == [neg |-> neg, int |-> int, frac |-> frac]

ZeroFrac == [j \in 1..FracLimbs |-> 0]

One == Double(FALSE, 1, ZeroFrac)

(* The bits of a fraction, most significant first *)
FracToBits(frac) ==
    [i \in 1..FracBits |->
        (frac[((i - 1) \div LimbBits) + 1]
            \div Pow2(LimbBits - ((i - 1) % LimbBits) - 1)) % 2]

RECURSIVE BitsValue(_)
BitsValue(bits) ==
    IF bits = <<>> THEN 0
    ELSE 2 * BitsValue(SubSeq(bits, 1, Len(bits) - 1)) + bits[Len(bits)]

BitsToFrac(bits) ==
    [j \in 1..FracLimbs |->
        BitsValue(SubSeq(bits, LimbBits * (j - 1) + 1, LimbBits * j))]

(* The first n limbs of the binary expansion of rem / den, 0 <= rem < den, *)
(* and the remainder left                                                  *)
RECURSIVE DivLimbs(_, _, _)
DivLimbs(rem, den, n) ==
    IF n = 0 THEN [limbs |-> <<>>, rem |-> rem]
    ELSE LET rest == DivLimbs((rem * LimbBase) % den, den, n - 1)
         IN  [limbs |-> <<(rem * LimbBase) \div den>> \o rest.limbs, rem |-> rest.rem]

(* Round int + 0.bits (+ something below the last bit when sticky) to a    *)
(* double: Mantissa significant bits, to nearest, ties to even             *)
RoundSig(neg, int, bits, sticky) ==
    LET ones == {i \in 1..FracBits : bits[i] = 1}
        lead == IF ones = {} THEN 0 ELSE CHOOSE i \in ones : \A j \in ones : i <= j
        keep == IF int > 0 THEN Mantissa - BitLen(int)
                ELSE IF lead = 0 THEN FracBits
                ELSE lead + Mantissa - 1
    IN  IF keep >= FracBits
        THEN Double(neg /\ (int > 0 \/ ones # {}), int, BitsToFrac(bits))
        ELSE LET guard == bits[keep + 1]
                 rest == sticky \/ \E i \in (keep + 2)..FracBits : bits[i] = 1
                 last == IF keep = 0 THEN int % 2 ELSE bits[keep]
                 up == guard = 1 /\ (rest \/ last = 1)
                 zeros == {i \in 1..keep : bits[i] = 0}
                 j == IF zeros = {} THEN 0
                      ELSE CHOOSE i \in zeros : \A k \in zeros : k <= i
             IN  IF ~up
                 THEN Double(neg, int,
                             BitsToFrac([i \in 1..FracBits |->
                                            IF i <= keep THEN bits[i] ELSE 0]))
                 ELSE Double(neg, IF j = 0 THEN int + 1 ELSE int,
                             BitsToFrac([i \in 1..FracBits |->
                                            IF i < j THEN bits[i]
                                            ELSE IF i = j THEN 1 ELSE 0]))

(* The double nearest to k / Scale: what the literal 0.29996 denotes *)
ToDouble(k) ==
    LET a == IF k < 0 THEN 0 - k ELSE k
        e == DivLimbs(a % Scale, Scale, FracLimbs)
    IN  RoundSig(k < 0, a \div Scale, FracToBits(e.limbs), e.rem # 0)

FracLess(a, b) ==
    \E i \in 1..FracLimbs : a[i] < b[i] /\ \A j \in 1..(i - 1) : a[j] = b[j]

MagLess(x, y) == x.int < y.int \/ (x.int = y.int /\ FracLess(x.frac, y.frac))

(* x < y on doubles *)
Less(x, y) ==
    IF x.neg /\ ~y.neg THEN TRUE
    ELSE IF ~x.neg /\ y.neg THEN FALSE
    ELSE IF x.neg THEN MagLess(y, x)
    ELSE MagLess(x, y)

(* min(x, 1.0) *)
MinOne(x) == IF Less(One, x) THEN One ELSE x

(* 1 - x, rounded as the subtraction of two doubles is *)
OneMinus(x) ==
    LET bits == FracToBits(x.frac)
        ones == {i \in 1..FracBits : bits[i] = 1}
        low == IF ones = {} THEN 0 ELSE CHOOSE i \in ones : \A j \in ones : j <= i
    IN  IF x.neg THEN RoundSig(FALSE, x.int + 1, bits, FALSE)
        ELSE IF x.int >= 1 THEN RoundSig(TRUE, x.int - 1, bits, FALSE)
        ELSE IF ones = {} THEN One
        ELSE RoundSig(FALSE, 0,
                      [i \in 1..FracBits |->
                          IF i < low THEN 1 - bits[i]
                          ELSE IF i = low THEN 1 ELSE 0],
                      FALSE)

(* -1, 0 or 1 as the fraction of x is below, at or above num / Scale *)
CompareFrac(frac, num) ==
    LET e == DivLimbs(num, Scale, FracLimbs)
    IN  IF FracLess(frac, e.limbs) THEN 0 - 1
        ELSE IF frac = e.limbs THEN (IF e.rem = 0 THEN 0 ELSE 0 - 1)
        ELSE 1

(* round(x, 4) of a double x, in units of 1 / Scale. Python rounds the     *)
(* exact binary value of x correctly, so x goes to the nearer multiple of  *)
(* 0.0001 and only a value exactly halfway goes to the even one. n is a    *)
(* lower estimate, from the first limb, of the fraction in units of        *)
(* 0.0001; the result is n plus the midpoints above n that x has passed.   *)
Round4Of(x) ==
    LET units == Scale \div RoundUnit
        half == RoundUnit \div 2
        n == (x.frac[1] * units) \div LimbBase
        Above(m) ==
            IF m * RoundUnit + half >= Scale THEN FALSE
            ELSE LET c == CompareFrac(x.frac, m * RoundUnit + half)
                 IN  c = 1 \/ (c = 0 /\ m % 2 = 1)
        ticks == IF ~Above(n) THEN n
                 ELSE IF ~Above(n + 1) THEN n + 1
                 ELSE n + 2
        mag == x.int * Scale + ticks * RoundUnit
    IN  IF x.neg THEN 0 - mag ELSE mag

-----------------------------------------------------------------------------
(* Backend responses *)

Present(items) == [present |-> TRUE, items |-> items]

Missing == [present |-> FALSE, items |-> <<>>]

(* One matching hit of the backend: document text, metadata, distance *)
Hit(content, metadata, distance) ==
    [content |-> content, metadata |-> metadata, distance |-> distance]

MetaA == {<<"source", "a.pdf">>}

MetaB == {<<"source", "b.pdf">>, <<"page", "2">>}

LongContent == Rep("x", PreviewLen + 1)

(* A content of exactly the preview length *)
ExactContent == Rep("y", PreviewLen)

HitPool ==
    { Hit(<<"a">>, MetaA, 20000),
      Hit(<<"b">>, MetaB, 40000),
      Hit(<<"c", "\n", "\n", "d">>, MetaA, 30000),
      Hit(LongContent, MetaB, 29996),
      Hit(<<>>, MetaA, 150000),
      Hit(ExactContent, MetaB, 0 - 50000) }

RECURSIVE SeqsUpTo(_, _)
SeqsUpTo(S, n) ==
    IF n = 0 THEN {<<>>}
    ELSE LET shorter == SeqsUpTo(S, n - 1)
         IN  shorter \cup {Append(s, x) : s \in {t \in shorter : Len(t) = n - 1}, x \in S}

HitLists == SeqsUpTo(HitPool, MaxHits)

Column(hits, field) == [i \in 1..Len(hits) |-> hits[i][field]]

DropLast(s) == IF s = <<>> THEN <<>> ELSE SubSeq(s, 1, Len(s) - 1)

(* The QueryResult the collection's query returns for a list of hits:      *)
(* parallel arrays results['documents'][0], ['metadatas'][0],              *)
(* ['distances'][0]; the shape says which of them is absent or short.      *)
Shapes ==
    {"ok", "no_documents", "no_metadatas", "no_distances",
     "short_metadatas", "short_distances", "empty_metadatas"}

QueryResult(hits, shape) ==
    [documents |-> IF shape = "no_documents" THEN Missing
                   ELSE Present(Column(hits, "content")),
     metadatas |-> IF shape = "no_metadatas" THEN Missing
                   ELSE IF shape = "empty_metadatas" THEN Present(<<>>)
                   ELSE IF shape = "short_metadatas"
                        THEN Present(DropLast(Column(hits, "metadata")))
                   ELSE Present(Column(hits, "metadata")),
     distances |-> IF shape = "no_distances" THEN Missing
                   ELSE IF shape = "short_distances"
                        THEN Present(DropLast(Column(hits, "distance")))
                   ELSE Present(Column(hits, "distance"))]

EmptyResult == QueryResult(<<>>, "ok")

(* A stub collection: its query either raises or returns a QueryResult *)
Collections ==
    {[raises |-> TRUE, hits |-> <<>>, shape |-> "ok"]}
    \cup {[raises |-> FALSE, hits |-> h, shape |-> s] : h \in HitLists, s \in Shapes}

WellFormed(c) == ~c.raises /\ c.shape = "ok"

-----------------------------------------------------------------------------
(* Configuration *)

Thresholds == {0, 70000, 70004, 80000}

(* Thresholds a caller may pass, in range or not *)
AnyThresholds == Thresholds \cup {0 - 10000, Scale, 150000}

OptionsSet ==
    {[persist_directory |-> "test_dir", collection_name |-> "test_collection",
      n_results |-> n, similarity_threshold |-> t] :
        n \in {MaxHits}, t \in Thresholds}

-----------------------------------------------------------------------------
(* The arithmetic of retrieve *)

(* The numbers of the model's responses and options. Their doubles, and    *)
(* what the code computes from them, are tabulated once with the           *)
(* arithmetic above; the operators the actions use look a known argument   *)
(* up and compute any other with the same arithmetic.                      *)
KnownDistances == {h.distance : h \in HitPool}

(* The function with the graph pairs, built value by value *)
RECURSIVE Tabulated(_)
Tabulated(pairs) ==
    IF pairs = {} THEN <<>>
    ELSE LET p == CHOOSE q \in pairs : TRUE
         IN  (p[1] :> p[2]) @@ Tabulated(pairs \ {p})

KnownNumbers == KnownDistances \cup AnyThresholds

(* The double a literal denotes *)
DoubleTable == Tabulated({<<k, ToDouble(k)>> : k \in KnownNumbers})

(* 1 - min(distance, 1.0) *)
SimilarityOf(x) == OneMinus(MinOne(x))

SimilarityTable ==
    Tabulated({<<d, SimilarityOf(DoubleTable[d])>> : d \in KnownDistances})

(* 1 - distance *)
LegacySimilarityOf(x) == OneMinus(x)

LegacySimilarityTable ==
    Tabulated({<<d, LegacySimilarityOf(DoubleTable[d])>> : d \in KnownDistances})

(* 1 + min(distance, 1.0) *)
FlippedOf(distance) ==
    LET x == MinOne(DoubleTable[distance])
    IN  RoundSig(FALSE, x.int + 1, FracToBits(x.frac), FALSE)

FlippedTable == Tabulated({<<d, FlippedOf(d)>> : d \in KnownDistances})

KnownSimilarities ==
    {SimilarityTable[d] : d \in KnownDistances}
    \cup {LegacySimilarityTable[d] : d \in KnownDistances}
    \cup {FlippedTable[d] : d \in KnownDistances}

SimilarityFlipped(distance) == FlippedTable[distance]

(* similarity_score = 1 - min(results['distances'][0][i], 1.0) *)
Similarity(distance) ==
    IF distance \in KnownDistances THEN SimilarityTable[distance]
    ELSE SimilarityOf(ToDouble(distance))

KnownPairs == KnownSimilarities \X AnyThresholds

(* x >= threshold on doubles *)
PassingPairs == {p \in KnownPairs : ~Less(p[1], DoubleTable[p[2]])}

(* x > threshold on doubles *)
StrictPairs == {p \in KnownPairs : Less(DoubleTable[p[2]], p[1])}

PassesStrict(similarity_score, threshold) ==
    <<similarity_score, threshold>> \in StrictPairs

(* similarity_score >= self.options.similarity_threshold *)
Passes(similarity_score, threshold) ==
    IF <<similarity_score, threshold>> \in KnownPairs
    THEN <<similarity_score, threshold>> \in PassingPairs
    ELSE ~Less(similarity_score, ToDouble(threshold))

Round4Table == Tabulated({<<x, Round4Of(x)>> : x \in KnownSimilarities})

(* round(similarity_score, 4) *)
Round4(x) ==
    IF x \in KnownSimilarities THEN Round4Table[x]
    ELSE Round4Of(x)

-----------------------------------------------------------------------------
(* Arguments: a Python value with its type *)

(* val holds the characters of a str, the decimal digits of an int *)
PyStr(chars) == [type |-> "str", val |-> chars]

PyInt(n) == [type |-> "int", val |-> IntToStr(n)]

PyNone == [type |-> "NoneType", val |-> <<>>]

Texts ==
    { PyStr(<<>>), PyStr(<<" ">>), PyStr(<<" ", "\t", VerticalTab>>), PyStr(<<"q">>),
      PyStr(<<" ", "q", " ">>), PyInt(123), PyInt(0), PyNone }

(* Python truthiness of the argument: not text *)
Falsy(text) ==
    \/ text.type = "NoneType"
    \/ text.type = "int" /\ text.val = <<"0">>
    \/ text.type = "str" /\ text.val = <<>>

HasStrip(text) == text.type = "str"

-----------------------------------------------------------------------------
(* Outcomes *)

Return(v) == [kind |-> "return", exc |-> "", value |-> v]

Raise(e) == [kind |-> "raise", exc |-> e, value |-> <<>>]

NoOutcome == [kind |-> "none", exc |-> "", value |-> <<>>]

(* An exception of class e whose str() is msg *)
Raised(e, msg) == [kind |-> "raise", exc |-> e, value |-> <<msg>>]

-----------------------------------------------------------------------------
(* ChromaDBRetriever.retrieve *)

Ok(docs) == [ok |-> TRUE, exc |-> "", docs |-> docs]

Err(e) == [ok |-> FALSE, exc |-> e, docs |-> <<>>]

MetadataAtLenient(results, i) ==
    IF ~results.metadatas.present THEN Err("KeyError")
    ELSE IF results.metadatas.items = <<>> THEN Ok({})
    ELSE IF i > Len(results.metadatas.items) THEN Ok({})
    ELSE Ok(results.metadatas.items[i])

(* results['metadatas'][0][i] if results['metadatas'][0] else {} *)
MetadataAt(results, i) ==
    IF ~results.metadatas.present THEN Err("KeyError")
    ELSE IF results.metadatas.items = <<>> THEN Ok({})
    ELSE IF i > Len(results.metadatas.items) THEN Err("IndexError")
    ELSE Ok(results.metadatas.items[i])

(* The for loop over range(len(results['documents'][0])), from index i with *)
(* formatted_results = acc; an exception abandons the loop.                 *)
RECURSIVE FormatLoop(_, _, _, _)
FormatLoop(results, threshold, i, acc) ==
    IF i > Len(results.documents.items) THEN Ok(acc)
    ELSE IF ~results.distances.present THEN Err("KeyError")
    ELSE IF i > Len(results.distances.items) THEN Err("IndexError")
    ELSE LET similarity_score == Similarity(results.distances.items[i])
         IN  IF Passes(similarity_score, threshold)
             THEN LET metadata == MetadataAt(results, i)
                  IN  IF ~metadata.ok THEN metadata
                      ELSE FormatLoop(results, threshold, i + 1,
                               Append(acc,
                                   [content |-> results.documents.items[i],
                                    metadata |-> metadata.docs,
                                    similarity_score |-> Round4(similarity_score)]))
             ELSE FormatLoop(results, threshold, i + 1, acc)

(* The body of the try block after the query returned *)
FormatResults(results, threshold) ==
    IF ~results.documents.present THEN Err("KeyError")
    ELSE IF results.documents.items = <<>> THEN Ok(<<>>)
    ELSE FormatLoop(results, threshold, 1, <<>>)

(* The arguments of self.collection.query in _execute_query *)
QueryCall(opts, text) ==
    [op |-> "query", query_texts |-> <<text.val>>, n_results |-> opts.n_results,
     include |-> <<"documents", "metadatas", "distances">>]

(* self.collection.count() *)
CountCall == [op |-> "count"]

(* self.collection.query(...) through _execute_query *)
ExecuteQuery(coll) ==
    IF coll.raises THEN [ok |-> FALSE, exc |-> "Exception", results |-> EmptyResult]
    ELSE [ok |-> TRUE, exc |-> "", results |-> QueryResult(coll.hits, coll.shape)]

IsBlankNoStrip(text) == Falsy(text)

(* not text or not text.strip(), for an argument that has strip() *)
IsBlank(text) == Falsy(text) \/ Strip(text.val) = <<>>

CatchNothing(r) == IF r.ok THEN Return(r.docs) ELSE Raise(r.exc)

(* except Exception: return [] *)
CatchAll(r) == IF r.ok THEN Return(r.docs) ELSE Return(<<>>)

RetrieveCallRetries(opts, coll, text) ==
    IF Falsy(text) THEN [outcome |-> Return(<<>>), queries |-> 0]
    ELSE IF ~HasStrip(text) THEN [outcome |-> Raise("AttributeError"), queries |-> 0]
    ELSE IF IsBlank(text) THEN [outcome |-> Return(<<>>), queries |-> 0]
    ELSE LET q == ExecuteQuery(coll)
         IN  IF ~q.ok THEN [outcome |-> CatchAll(Err(q.exc)), queries |-> 2]
             ELSE [outcome |-> CatchAll(FormatResults(q.results, opts.similarity_threshold)),
                   queries |-> 1]

(* retrieve(text) against collection coll: the outcome and the number of   *)
(* backend queries issued                                                  *)
RetrieveCall(opts, coll, text) ==
    IF Falsy(text) THEN [outcome |-> Return(<<>>), queries |-> 0]
    ELSE IF ~HasStrip(text) THEN [outcome |-> Raise("AttributeError"), queries |-> 0]
    ELSE IF IsBlank(text) THEN [outcome |-> Return(<<>>), queries |-> 0]
    ELSE LET q == ExecuteQuery(coll)
         IN  IF ~q.ok THEN [outcome |-> CatchAll(Err(q.exc)), queries |-> 1]
             ELSE [outcome |-> CatchAll(FormatResults(q.results, opts.similarity_threshold)),
                   queries |-> 1]

-----------------------------------------------------------------------------
(* ChromaDBRetriever.retrieve_and_combine_results *)

EmptyCombined == [combined_content |-> <<>>, sources |-> <<>>, total_sources |-> 0]

InsertAt(s, j, x) == SubSeq(s, 1, j - 1) \o <<x>> \o SubSeq(s, j, Len(s))

(* Position at which x goes into the descending list s so far *)
PlaceTiesFirst(s, x) ==
    LET lower == {j \in 1..Len(s) : s[j].similarity_score <= x.similarity_score}
    IN  IF lower = {} THEN Len(s) + 1
        ELSE CHOOSE j \in lower : \A k \in lower : j <= k

(* list.sort is stable, also with reverse=True: x goes behind every element *)
(* whose key is greater than or equal to its own                            *)
Place(s, x) ==
    LET lower == {j \in 1..Len(s) : s[j].similarity_score < x.similarity_score}
    IN  IF lower = {} THEN Len(s) + 1
        ELSE CHOOSE j \in lower : \A k \in lower : j <= k

RECURSIVE SortInto(_, _)
SortInto(sorted, rest) ==
    IF rest = <<>> THEN sorted
    ELSE SortInto(InsertAt(sorted, Place(sorted, Head(rest)), Head(rest)), Tail(rest))

(* results.sort(key=lambda x: x['similarity_score'], reverse=True) *)
SortBySimilarity(results) == SortInto(<<>>, results)

LabelBare(i, doc) == doc.content

LabelZeroBased(i, doc) == DocumentWord \o IntToStr(i - 1) \o <<":", "\n">> \o doc.content

(* f"Document {i+1}:\n{doc['content']}", i+1 passed as i *)
Label(i, doc) == DocumentWord \o IntToStr(i) \o <<":", "\n">> \o doc.content

(* doc['content'][:100] + "..." if len(doc['content']) > 100 else doc['content'] *)
ContentPreviewOffByOne(content) ==
    IF Len(content) >= PreviewLen
    THEN SubSeq(content, 1, PreviewLen) \o Ellipsis
    ELSE content

ContentPreview(content) ==
    IF Len(content) > PreviewLen
    THEN SubSeq(content, 1, PreviewLen) \o Ellipsis
    ELSE content

Source(doc) ==
    [metadata |-> doc.metadata,
     similarity_score |-> doc.similarity_score,
     content_preview |-> ContentPreview(doc.content)]

(* The try block of retrieve_and_combine_results once retrieve has returned *)
CombineResults(results) ==
    IF results = <<>> THEN EmptyCombined
    ELSE LET sorted == SortBySimilarity(results)
             contents == [i \in 1..Len(sorted) |-> Label(i, sorted[i])]
             sources == [i \in 1..Len(sorted) |-> Source(sorted[i])]
         IN  [combined_content |-> Join(Separator, contents),
              sources |-> sources,
              total_sources |-> Len(sources)]

(* A document record that has the keys the combine step reads *)
WellFormedDoc(doc) == {"content", "metadata", "similarity_score"} \subseteq DOMAIN doc

(* The try block of retrieve_and_combine_results, r the outcome of         *)
(* await self.retrieve(text): an exception of retrieve, or a KeyError on a *)
(* record that lacks a key, leaves the block.                              *)
CombineTry(r) ==
    IF r.kind = "raise" THEN Err(r.exc)
    ELSE IF \E i \in 1..Len(r.value) : ~WellFormedDoc(r.value[i]) THEN Err("KeyError")
    ELSE Ok(CombineResults(r.value))

CombineCatchNothing(t) == IF t.ok THEN Return(t.docs) ELSE Raise(t.exc)

(* except Exception: return the all-empty combined result *)
CombineCatch(t) == IF t.ok THEN Return(t.docs) ELSE Return(EmptyCombined)

(* retrieve_and_combine_results(text) *)
(* retrieve_and_combine_results once await self.retrieve(text) gave r *)
CombineAfter(r) ==
    [retrieved |-> r.outcome,
     outcome |-> CombineCatch(CombineTry(r.outcome)),
     queries |-> r.queries]

CombineCall(opts, coll, text) == CombineAfter(RetrieveCall(opts, coll, text))

-----------------------------------------------------------------------------
(* ChromaDBRetriever.retrieve_and_generate *)

EmptyGenerated ==
    [generated_content |-> <<>>, summary |-> <<>>, sources |-> <<>>, total_sources |-> 0]

(* if len(summary) > 200: summary = summary[:197] + "..." *)
CapSummaryKeepsMax(summary) ==
    IF Len(summary) > SummaryMax
    THEN SubSeq(summary, 1, SummaryMax) \o Ellipsis
    ELSE summary

CapSummary(summary) ==
    IF Len(summary) > SummaryMax
    THEN SubSeq(summary, 1, SummaryKeep) \o Ellipsis
    ELSE summary

GenerateFromPassThrough(combined_results) ==
    IF combined_results.combined_content = <<>> THEN combined_results
    ELSE [generated_content |-> combined_results.combined_content,
          summary |-> CapSummary(combined_results.sources[1].content_preview),
          sources |-> combined_results.sources,
          total_sources |-> combined_results.total_sources]

GenerateFromFirstParagraph(combined_results) ==
    IF combined_results.combined_content = <<>> THEN EmptyGenerated
    ELSE [generated_content |-> combined_results.combined_content,
          summary |-> CapSummary(FirstPart(combined_results.combined_content, BlankLine)),
          sources |-> combined_results.sources,
          total_sources |-> combined_results.total_sources]

(* The try block of retrieve_and_generate once the combine step returned *)
GenerateFrom(combined_results) ==
    IF combined_results.combined_content = <<>> THEN EmptyGenerated
    ELSE LET summary ==
                 IF combined_results.sources # <<>>
                    /\ "content_preview" \in DOMAIN combined_results.sources[1]
                 THEN combined_results.sources[1].content_preview
                 ELSE FirstPart(combined_results.combined_content, BlankLine)
         IN  [generated_content |-> combined_results.combined_content,
              summary |-> CapSummary(summary),
              sources |-> combined_results.sources,
              total_sources |-> combined_results.total_sources]

(* The try block of retrieve_and_generate, c the outcome of                *)
(* await self.retrieve_and_combine_results(text): an exception of the      *)
(* combine step, or a KeyError on a missing key, leaves the block.         *)
GenerateTry(c) ==
    IF c.kind = "raise" THEN Err(c.exc)
    ELSE IF "combined_content" \notin DOMAIN c.value THEN Err("KeyError")
    ELSE IF c.value.combined_content # <<>>
            /\ ~({"sources", "total_sources"} \subseteq DOMAIN c.value)
         THEN Err("KeyError")
    ELSE Ok(GenerateFrom(c.value))

(* except Exception: return the all-empty generated result *)
GenerateCatch(t) == IF t.ok THEN Return(t.docs) ELSE Return(EmptyGenerated)

(* retrieve_and_generate(text) *)
(* retrieve_and_generate once the combine step gave c *)
GenerateAfter(c) ==
    [retrieved |-> c.retrieved,
     combined |-> c.outcome,
     outcome |-> GenerateCatch(GenerateTry(c.outcome)),
     queries |-> c.queries]

GenerateCall(opts, coll, text) == GenerateAfter(CombineCall(opts, coll, text))

-----------------------------------------------------------------------------
(* No SimpleAgent has been constructed *)
NoAgent == [model_provider |-> "none"]

NoAgentLog == [model_calls |-> 0]

-----------------------------------------------------------------------------
(* The state machine *)

(* Backend call kinds a successful __init__ has made *)
ConstructionOps == {"PersistentClient", "get_collection"}

QueryOps(n) == IF n > 0 THEN {"query"} ELSE {}

(* No coroutine is suspended *)
NoPending ==
    [pc |-> "none", op |-> "none", text |-> PyNone, queries |-> 0,
     response |-> ExecuteQuery([raises |-> TRUE, hits |-> <<>>, shape |-> "ok"])]

(* The state after a successful construction *)
Init ==
    /\ phase = "Ready"
    /\ store = "ok"
    /\ backendOps = ConstructionOps
    /\ combined = NoOutcome
    /\ counted = NoOutcome
    /\ calls = <<>>
    /\ lastResponse = <<>>
    /\ lastBackend = <<>>
    /\ agent = NoAgent
    /\ agentLog = NoAgentLog
    /\ pending = NoPending
    /\ options \in OptionsSet
    /\ collection \in Collections
    /\ queryCalls = 0
    /\ lastQueries = 0
    /\ lastOp = "none"
    /\ lastText = PyNone
    /\ retrieved = NoOutcome
    /\ result = NoOutcome

(* What the called method does with the outcome r of retrieve *)
AfterRetrieve(op, r) ==
    IF op = "retrieve" THEN r
    ELSE IF op = "retrieve_and_combine_results" THEN CombineCatch(CombineTry(r))
    ELSE GenerateCatch(GenerateTry(CombineCatch(CombineTry(r))))

(* The rest of retrieve's try block once the coroutine is resumed with q *)
ResumeCall(opts, q) ==
    CatchAll(IF ~q.ok THEN Err(q.exc)
             ELSE FormatResults(q.results, opts.similarity_threshold))

(* The coroutine is suspended at results = await ...run_in_executor(None,  *)
(* self._execute_query, text) with n queries handed to the executor: no    *)
(* call has returned since it was made, and the backend is untouched.      *)
Suspend(op, text, n) ==
    /\ pending' = [NoPending EXCEPT !.pc = "querying", !.op = op, !.text = text,
                                    !.queries = n]
    /\ lastOp' = "none"
    /\ lastText' = PyNone
    /\ retrieved' = NoOutcome
    /\ combined' = NoOutcome
    /\ counted' = NoOutcome
    /\ result' = NoOutcome
    /\ lastQueries' = 0
    /\ lastBackend' = <<>>
    /\ UNCHANGED <<queryCalls, backendOps>>

(* A call that is awaited: the coroutine runs to its return when the guard *)
(* on the query text ends it, and to its suspension at the await otherwise *)
Retrieve(text) ==
    /\ phase = "Ready"
    /\ pending.pc = "none"
    /\ \E r \in {RetrieveCall(options, collection, text)} :
        /\ queryCalls + r.queries <= MaxCalls
        /\ IF r.queries = 0
           THEN /\ lastOp' = "retrieve"
                /\ lastText' = text
                /\ retrieved' = r.outcome
                /\ combined' = NoOutcome
                /\ counted' = NoOutcome
                /\ result' = r.outcome
                /\ lastQueries' = 0
                /\ lastBackend' = <<>>
                /\ UNCHANGED <<pending, queryCalls, backendOps>>
           ELSE Suspend("retrieve", text, r.queries)
        /\ UNCHANGED <<agent, agentLog, phase, store, options, collection, calls, lastResponse>>

RetrieveAndCombineResults(text) ==
    /\ phase = "Ready"
    /\ pending.pc = "none"
    /\ \E c \in {CombineCall(options, collection, text)} :
        /\ queryCalls + c.queries <= MaxCalls
        /\ IF c.queries = 0
           THEN /\ lastOp' = "retrieve_and_combine_results"
                /\ lastText' = text
                /\ retrieved' = c.retrieved
                /\ combined' = c.outcome
                /\ counted' = NoOutcome
                /\ result' = c.outcome
                /\ lastQueries' = 0
                /\ lastBackend' = <<>>
                /\ UNCHANGED <<pending, queryCalls, backendOps>>
           ELSE Suspend("retrieve_and_combine_results", text, c.queries)
        /\ UNCHANGED <<agent, agentLog, phase, store, options, collection, calls, lastResponse>>

RetrieveAndGenerate(text) ==
    /\ phase = "Ready"
    /\ pending.pc = "none"
    /\ \E g \in {GenerateCall(options, collection, text)} :
        /\ queryCalls + g.queries <= MaxCalls
        /\ IF g.queries = 0
           THEN /\ lastOp' = "retrieve_and_generate"
                /\ lastText' = text
                /\ retrieved' = g.retrieved
                /\ combined' = g.combined
                /\ counted' = NoOutcome
                /\ result' = g.outcome
                /\ lastQueries' = 0
                /\ lastBackend' = <<>>
                /\ UNCHANGED <<pending, queryCalls, backendOps>>
           ELSE Suspend("retrieve_and_generate", text, g.queries)
        /\ UNCHANGED <<agent, agentLog, phase, store, options, collection, calls, lastResponse>>

(* The executor thread runs _execute_query(text) for the suspended         *)
(* coroutine: the backend is queried and its answer kept for the resume.   *)
ExecutorQuery ==
    /\ pending.pc = "querying"
    /\ pending' = [pending EXCEPT !.pc = "answered", !.response = ExecuteQuery(collection)]
    /\ queryCalls' = queryCalls + pending.queries
    /\ backendOps' = backendOps \cup QueryOps(pending.queries)
    /\ UNCHANGED <<agent, agentLog, phase, store, options, collection, calls,
                   lastResponse, lastOp, lastText, retrieved, combined, counted,
                   result, lastQueries, lastBackend>>

(* The state the resumed coroutine leaves when it returns: docs is what    *)
(* its retrieve step returned, comb what its combine step returned and     *)
(* outcome what the called method returns.                                 *)
Returning(docs, comb, outcome) ==
    /\ pending' = NoPending
    /\ lastOp' = pending.op
    /\ lastText' = pending.text
    /\ retrieved' = docs
    /\ combined' = comb
    /\ counted' = NoOutcome
    /\ result' = outcome
    /\ lastQueries' = pending.queries
    /\ lastBackend' = [i \in 1..pending.queries |-> QueryCall(options, pending.text)]
    /\ UNCHANGED <<agent, agentLog, phase, store, options, collection,
                   lastResponse, queryCalls, backendOps>>

(* The methods of the retriever that await retrieve *)
RetrieverOps == {"retrieve", "retrieve_and_combine_results", "retrieve_and_generate"}

(* The combine step of the called method op over the outcome r of retrieve *)
CombineStep(op, r) ==
    IF op = "retrieve" THEN NoOutcome ELSE CombineCatch(CombineTry(r))

(* The event loop resumes the suspended coroutine, which runs to its       *)
(* return without another await: the threshold is read now.                *)
ResumeRetrieve ==
    /\ pending.pc = "answered"
    /\ pending.op \in RetrieverOps
    /\ \E r \in {ResumeCall(options, pending.response)} :
        Returning(r, CombineStep(pending.op, r), AfterRetrieve(pending.op, r))
    /\ UNCHANGED calls

-----------------------------------------------------------------------------
(* ChromaDBRetriever.health_check *)

(* What collection.count() may do: raise, or return a document count *)
CountOutcomes == {Raised("Exception", "backend down"), Return(<<0>>), Return(<<12>>)}

HealthCheckPropagates(opts, c) ==
    IF c.kind = "return"
    THEN Return([healthy |-> TRUE,
                 message |-> <<"Connected to collection '", opts.collection_name,
                               "' with ">> \o IntToStr(c.value[1]) \o <<" documents">>])
    ELSE c

(* The body of health_check, c the outcome of self.collection.count();     *)
(* a message is the sequence of the fragments of its f-string.             *)
HealthCheckCall(opts, c) ==
    IF c.kind = "return"
    THEN Return([healthy |-> TRUE,
                 message |-> <<"Connected to collection '", opts.collection_name,
                               "' with ">> \o IntToStr(c.value[1]) \o <<" documents">>])
    ELSE Return([healthy |-> FALSE,
                 message |-> <<"Failed to connect to ChromaDB: ", c.value[1]>>])

HealthCheckClosesOnFailure(c) ==
    /\ phase = "Ready"
    /\ phase' = (IF c.kind = "raise" THEN "Failed" ELSE phase)
    /\ lastOp' = "health_check"
    /\ lastText' = PyNone
    /\ retrieved' = NoOutcome
    /\ combined' = NoOutcome
    /\ counted' = c
    /\ result' = HealthCheckCall(options, c)
    /\ lastQueries' = 0
    /\ backendOps' = backendOps \cup {"count"}
    /\ lastBackend' = <<CountCall>>
    /\ UNCHANGED <<pending, agent, agentLog, store, options, collection, queryCalls, calls, lastResponse>>

HealthCheck(c) ==
    /\ phase = "Ready"
    /\ pending.pc = "none"
    /\ lastOp' = "health_check"
    /\ lastText' = PyNone
    /\ retrieved' = NoOutcome
    /\ combined' = NoOutcome
    /\ counted' = c
    /\ result' = HealthCheckCall(options, c)
    /\ lastQueries' = 0
    /\ backendOps' = backendOps \cup {"count"}
    /\ lastBackend' = <<CountCall>>
    /\ UNCHANGED <<pending, agent, agentLog, phase, store, options, collection, queryCalls, calls, lastResponse>>

-----------------------------------------------------------------------------
(* ChromaDBRetriever.__init__ *)

(* What the backend at persist_directory holds: the named collection, no   *)
(* collection of that name, or nothing that a client can open.             *)
Stores == {"ok", "no_collection", "unreachable"}

(* Options a caller may pass, valid or not *)
AnyOptions ==
    {[persist_directory |-> d, collection_name |-> c,
      n_results |-> n, similarity_threshold |-> t] :
        d \in {"", "test_dir"}, c \in {"", "test_collection"},
        n \in {0 - 1, 0, MaxHits}, t \in AnyThresholds}

(* The first violated constraint of lines 63-70, "" when the options pass *)
ValidationError(opts) ==
    IF opts.persist_directory = "" THEN "persist_directory must be provided"
    ELSE IF opts.collection_name = "" THEN "collection_name must be provided"
    ELSE IF opts.n_results <= 0 THEN "n_results must be greater than 0"
    ELSE IF ~(0 <= opts.similarity_threshold /\ opts.similarity_threshold <= Scale)
         THEN "similarity_threshold must be between 0 and 1"
    ELSE ""

OpenOrCreateCollection(st) ==
    IF st = "unreachable"
    THEN [outcome |-> Raised("Exception", "cannot open store"),
          ops |-> {"PersistentClient"}]
    ELSE IF st = "no_collection"
    THEN [outcome |-> Return(<<>>),
          ops |-> {"PersistentClient", "get_collection", "create_collection"}]
    ELSE [outcome |-> Return(<<>>), ops |-> {"PersistentClient", "get_collection"}]

(* chromadb.PersistentClient(...) then client.get_collection(name): the    *)
(* backend's own exception is logged and re-raised.                        *)
OpenCollection(st) ==
    IF st = "unreachable"
    THEN [outcome |-> Raised("Exception", "cannot open store"),
          ops |-> {"PersistentClient"}]
    ELSE IF st = "no_collection"
    THEN [outcome |-> Raised("NotFoundError", "collection does not exist"),
          ops |-> {"PersistentClient", "get_collection"}]
    ELSE [outcome |-> Return(<<>>), ops |-> {"PersistentClient", "get_collection"}]

ConstructCallValidatesLate(opts, st) ==
    LET o == OpenCollection(st)
    IN  IF o.outcome.kind = "raise" THEN o
        ELSE IF ValidationError(opts) # ""
             THEN [outcome |-> Raised("ValueError", ValidationError(opts)), ops |-> o.ops]
        ELSE o

(* __init__(options) against the backend state st *)
ConstructCall(opts, st) ==
    IF ValidationError(opts) # ""
    THEN [outcome |-> Raised("ValueError", ValidationError(opts)), ops |-> {}]
    ELSE OpenCollection(st)

Construct ==
    \E k \in {ConstructCall(options, store)} :
        /\ phase = "Uninitialized"
        /\ phase' = IF k.outcome.kind = "return" THEN "Ready" ELSE "Failed"
        /\ lastOp' = "__init__"
        /\ result' = k.outcome
        /\ backendOps' = backendOps \cup k.ops
        /\ lastBackend' = <<>>
        /\ UNCHANGED <<pending, agent, agentLog, store, options, collection, queryCalls, lastQueries, lastText,
                       retrieved, combined, counted, calls, lastResponse>>

(* _execute_query(text) called directly, as the tests call it: the        *)
(* logging line slices text[:50], which raises TypeError for a value that  *)
(* cannot be sliced; an exception of collection.query is not caught.       *)
ExecuteQueryCall(opts, coll, text) ==
    IF text.type # "str" THEN [outcome |-> Raise("TypeError"), queries |-> 0]
    ELSE LET q == ExecuteQuery(coll)
         IN  [outcome |-> IF q.ok THEN Return(q.results) ELSE Raise(q.exc),
              queries |-> 1]

ExecuteQueryDirect(text) ==
    /\ phase = "Ready"
    /\ pending.pc = "none"
    /\ \E q \in {ExecuteQueryCall(options, collection, text)} :
        /\ queryCalls + q.queries <= MaxCalls
        /\ lastOp' = "_execute_query"
        /\ lastText' = text
        /\ retrieved' = NoOutcome
        /\ combined' = NoOutcome
        /\ counted' = NoOutcome
        /\ result' = q.outcome
        /\ queryCalls' = queryCalls + q.queries
        /\ lastQueries' = q.queries
        /\ backendOps' = backendOps \cup QueryOps(q.queries)
        /\ lastBackend' = [i \in 1..q.queries |-> QueryCall(options, text)]
        /\ UNCHANGED <<pending, agent, agentLog, phase, store, options, collection, calls,
                       lastResponse>>

Next ==
    \/ \E text \in Texts : Retrieve(text)
    \/ \E text \in Texts : RetrieveAndCombineResults(text)
    \/ \E text \in Texts : RetrieveAndGenerate(text)
    \/ ExecutorQuery
    \/ ResumeRetrieve

Spec == Init /\ [][Next]_vars

-----------------------------------------------------------------------------
(* The life of one retriever, from the call of the constructor on *)

(* Collections of at most one hit *)
SmallCollections ==
    {c \in Collections :
        c.raises \/ (Len(c.hits) <= 1 /\ c.shape \in {"ok", "no_distances"})}

InitLifecycle ==
    /\ phase = "Uninitialized"
    /\ store \in Stores
    /\ options \in AnyOptions
    /\ collection \in SmallCollections
    /\ backendOps = {}
    /\ queryCalls = 0
    /\ lastQueries = 0
    /\ lastOp = "none"
    /\ lastText = PyNone
    /\ retrieved = NoOutcome
    /\ combined = NoOutcome
    /\ counted = NoOutcome
    /\ result = NoOutcome
    /\ calls = <<>>
    /\ lastResponse = <<>>
    /\ lastBackend = <<>>
    /\ agent = NoAgent
    /\ agentLog = NoAgentLog
    /\ pending = NoPending

NextLifecycle ==
    \/ Construct
    \/ \E c \in CountOutcomes : HealthCheck(c)
    \/ \E text \in Texts : ExecuteQueryDirect(text)
    \/ Next

SpecLifecycle == InitLifecycle /\ [][NextLifecycle]_vars

-----------------------------------------------------------------------------
(* The retriever with its retrieve or its retrieve_and_combine_results     *)
(* replaced by a stub, as the tests replace them                           *)

MaxStubDocs == 2

StubDocs ==
    { [content |-> <<"a">>, metadata |-> MetaA, similarity_score |-> 90000],
      [content |-> LongContent, metadata |-> MetaB, similarity_score |-> 95000],
      [metadata |-> MetaA, similarity_score |-> 80000],
      [content |-> <<"b">>, metadata |-> MetaB] }

StubRetrieveOutcomes ==
    {Raise("Exception")} \cup {Return(d) : d \in SeqsUpTo(StubDocs, MaxStubDocs)}

FirstSecond == <<"F", ".", "\n", "\n", "S", ".">>

StubContents ==
    {<<>>, FirstSecond, Rep("y", SummaryMax + 1) \o BlankLine \o <<"z">>, Rep("z", SummaryMax)}

StubSources ==
    { <<>>,
      <<[metadata |-> MetaA, similarity_score |-> 90000]>>,
      <<[metadata |-> MetaA, similarity_score |-> 90000, content_preview |-> <<"p">>]>>,
      <<[metadata |-> MetaA, similarity_score |-> 90000,
         content_preview |-> Rep("w", SummaryMax + 1)]>>,
      <<[metadata |-> MetaA, similarity_score |-> 90000,
         content_preview |-> Rep("v", SummaryMax)]>> }

StubCombineOutcomes ==
    {Raise("Exception"),
     Return([sources |-> <<>>, total_sources |-> 0]),
     Return([combined_content |-> FirstSecond])}
    \cup {Return([combined_content |-> c, sources |-> src, total_sources |-> Len(src)]) :
              c \in StubContents, src \in StubSources}

(* retrieve_and_combine_results with self.retrieve replaced by a stub of   *)
(* outcome r                                                               *)
CombineOverStub(r) ==
    /\ phase = "Ready"
    /\ pending.pc = "none"
    /\ \E c \in {CombineCatch(CombineTry(r))} :
        /\ lastOp' = "retrieve_and_combine_results"
        /\ lastText' = PyStr(<<"q">>)
        /\ retrieved' = r
        /\ combined' = c
        /\ counted' = NoOutcome
        /\ result' = c
        /\ lastQueries' = 0
        /\ lastBackend' = <<>>
        /\ UNCHANGED <<pending, agent, agentLog, phase, store, options, collection, backendOps, queryCalls,
                       calls, lastResponse>>

(* retrieve_and_generate with self.retrieve_and_combine_results replaced   *)
(* by a stub of outcome c                                                  *)
GenerateOverStub(c) ==
    /\ phase = "Ready"
    /\ pending.pc = "none"
    /\ lastOp' = "retrieve_and_generate"
    /\ lastText' = PyStr(<<"q">>)
    /\ retrieved' = NoOutcome
    /\ combined' = c
    /\ counted' = NoOutcome
    /\ result' = GenerateCatch(GenerateTry(c))
    /\ lastQueries' = 0
    /\ lastBackend' = <<>>
    /\ UNCHANGED <<pending, agent, agentLog, phase, store, options, collection, backendOps, queryCalls,
                   calls, lastResponse>>

(* The retriever of src/chroma_retriever.py, which the refactored one      *)
(* replaced: its retrieve_and_combine_results neither sorts nor labels.    *)
LegacyCombineResultsSorted(results) ==
    IF results = <<>> THEN EmptyCombined
    ELSE LET sorted == SortBySimilarity(results)
         IN  [combined_content |->
                  Join(BlankLine, [i \in 1..Len(sorted) |-> sorted[i].content]),
              sources |-> [i \in 1..Len(sorted) |->
                              [metadata |-> sorted[i].metadata,
                               similarity_score |-> sorted[i].similarity_score]],
              total_sources |-> Len(sorted)]

LegacyCombineResults(results) ==
    IF results = <<>> THEN EmptyCombined
    ELSE [combined_content |->
              Join(BlankLine, [i \in 1..Len(results) |-> results[i].content]),
          sources |-> [i \in 1..Len(results) |->
                          [metadata |-> results[i].metadata,
                           similarity_score |-> results[i].similarity_score]],
          total_sources |-> Len(results)]

(* Its try block, r the outcome of await self.retrieve(text) *)
LegacyCombineTry(r) ==
    IF r.kind = "raise" THEN Err(r.exc)
    ELSE IF \E i \in 1..Len(r.value) : ~WellFormedDoc(r.value[i]) THEN Err("KeyError")
    ELSE Ok(LegacyCombineResults(r.value))

(* The legacy retrieve_and_combine_results with self.retrieve replaced by  *)
(* a stub of outcome r                                                     *)
LegacyCombineOverStub(r) ==
    /\ phase = "Ready"
    /\ pending.pc = "none"
    /\ \E c \in {CombineCatch(LegacyCombineTry(r))} :
        /\ lastOp' = "legacy.retrieve_and_combine_results"
        /\ lastText' = PyStr(<<"q">>)
        /\ retrieved' = r
        /\ combined' = c
        /\ counted' = NoOutcome
        /\ result' = c
        /\ lastQueries' = 0
        /\ lastBackend' = <<>>
        /\ UNCHANGED <<pending, agent, agentLog, phase, store, options, collection, backendOps,
                       queryCalls, calls, lastResponse>>

InitStub ==
    /\ phase = "Ready"
    /\ store = "ok"
    /\ options \in OptionsSet
    /\ collection \in SmallCollections
    /\ backendOps = ConstructionOps
    /\ queryCalls = 0
    /\ lastQueries = 0
    /\ lastOp = "none"
    /\ lastText = PyNone
    /\ retrieved = NoOutcome
    /\ combined = NoOutcome
    /\ counted = NoOutcome
    /\ result = NoOutcome
    /\ calls = <<>>
    /\ lastResponse = <<>>
    /\ lastBackend = <<>>
    /\ agent = NoAgent
    /\ agentLog = NoAgentLog
    /\ pending = NoPending

NextStub ==
    \/ \E r \in StubRetrieveOutcomes : CombineOverStub(r)
    \/ \E c \in StubCombineOutcomes : GenerateOverStub(c)
    \/ \E r \in StubRetrieveOutcomes : LegacyCombineOverStub(r)
    \/ Next

SpecStub == InitStub /\ [][NextStub]_vars

-----------------------------------------------------------------------------
(* The retriever of src/chroma_retriever.py against its collection: its    *)
(* retrieve has no guard on the query text, does not clamp the distance,   *)
(* reads the metadata of every passing hit and does not round the score.   *)
(* Its constructor checks no option.                                       *)

(* similarity_score = 1 - results['distances'][0][i] *)
LegacySimilarity(distance) ==
    IF distance \in KnownDistances THEN LegacySimilarityTable[distance]
    ELSE LegacySimilarityOf(ToDouble(distance))

(* results['metadatas'][0][i] *)
LegacyMetadataAt(results, i) ==
    IF ~results.metadatas.present THEN Err("KeyError")
    ELSE IF i > Len(results.metadatas.items) THEN Err("IndexError")
    ELSE Ok(results.metadatas.items[i])

(* Its for loop, from index i with formatted_results = acc: the score of a *)
(* document is the double itself.                                          *)
RECURSIVE LegacyFormatLoop(_, _, _, _)
LegacyFormatLoop(results, threshold, i, acc) ==
    IF i > Len(results.documents.items) THEN Ok(acc)
    ELSE IF ~results.distances.present THEN Err("KeyError")
    ELSE IF i > Len(results.distances.items) THEN Err("IndexError")
    ELSE LET similarity_score == LegacySimilarity(results.distances.items[i])
         IN  IF Passes(similarity_score, threshold)
             THEN LET metadata == LegacyMetadataAt(results, i)
                  IN  IF ~metadata.ok THEN metadata
                      ELSE LegacyFormatLoop(results, threshold, i + 1,
                               Append(acc,
                                   [content |-> results.documents.items[i],
                                    metadata |-> metadata.docs,
                                    similarity_score |-> similarity_score]))
             ELSE LegacyFormatLoop(results, threshold, i + 1, acc)

(* The body of its try block after the query returned *)
LegacyFormatResults(results, threshold) ==
    IF ~results.documents.present THEN Err("KeyError")
    ELSE IF results.documents.items = <<>> THEN Ok(<<>>)
    ELSE LegacyFormatLoop(results, threshold, 1, <<>>)

(* The rest of its try block once the coroutine is resumed with q *)
LegacyResumeCall(opts, q) ==
    CatchAll(IF ~q.ok THEN Err(q.exc)
             ELSE LegacyFormatResults(q.results, opts.similarity_threshold))

(* Its retrieve(text): every text is sent to the backend *)
LegacyRetrieveCall(opts, coll, text) ==
    [outcome |-> LegacyResumeCall(opts, ExecuteQuery(coll)), queries |-> 1]

(* The try block of its retrieve_and_generate once the combine step        *)
(* returned: the summary is the text before the first blank line.          *)
LegacyGenerateFrom(combined_results) ==
    IF combined_results.combined_content = <<>> THEN EmptyGenerated
    ELSE [generated_content |-> combined_results.combined_content,
          summary |-> FirstPart(combined_results.combined_content, BlankLine),
          sources |-> combined_results.sources,
          total_sources |-> combined_results.total_sources]

(* c is the outcome of await self.retrieve_and_combine_results(text) *)
LegacyGenerateTry(c) ==
    IF c.kind = "raise" THEN Err(c.exc)
    ELSE IF "combined_content" \notin DOMAIN c.value THEN Err("KeyError")
    ELSE IF c.value.combined_content # <<>>
            /\ ~({"sources", "total_sources"} \subseteq DOMAIN c.value)
         THEN Err("KeyError")
    ELSE Ok(LegacyGenerateFrom(c.value))

LegacyOp(op) == <<"legacy.retrieve", "legacy.retrieve_and_combine_results",
                  "legacy.retrieve_and_generate">>[op]

LegacyOps == {LegacyOp(op) : op \in 1..3}

(* The combine step of its method op over the outcome r of its retrieve *)
LegacyCombineStep(op, r) ==
    IF op = LegacyOp(1) THEN NoOutcome ELSE CombineCatch(LegacyCombineTry(r))

(* What its method op returns *)
LegacyAfterRetrieve(op, r) ==
    IF op = LegacyOp(1) THEN r
    ELSE IF op = LegacyOp(2) THEN LegacyCombineStep(op, r)
    ELSE GenerateCatch(LegacyGenerateTry(LegacyCombineStep(op, r)))

LegacyTexts == {PyStr(<<"q">>), PyStr(<<" ">>), PyStr(<<>>)}

(* Its __init__(options) against the backend state st: no option is        *)
(* checked, chromadb.PersistentClient(path=...) and then                   *)
(* client.get_collection(name) are called, and an exception of either      *)
(* leaves the constructor.                                                 *)
LegacyConstructCall(opts, st) == OpenCollection(st)

LegacyConstruct ==
    /\ phase = "Uninitialized"
    /\ \E k \in {LegacyConstructCall(options, store)} :
        /\ phase' = IF k.outcome.kind = "return" THEN "Ready" ELSE "Failed"
        /\ lastOp' = "legacy.__init__"
        /\ result' = k.outcome
        /\ backendOps' = backendOps \cup k.ops
        /\ lastBackend' = <<>>
    /\ UNCHANGED <<pending, agent, agentLog, store, options, collection, queryCalls,
                   lastQueries, lastText, retrieved, combined, counted, calls,
                   lastResponse>>

(* The collection create_collection makes: it holds no document *)
CreatedCollection == [raises |-> FALSE, hits |-> <<>>, shape |-> "ok"]

(* get_or_create_collection(client, collection_name) with the client of a  *)
(* store st: client.get_collection(name) and, when that raises,            *)
(* client.create_collection(name). The value returned is created.          *)
GetOrCreateCollectionCall(st) ==
    IF st = "no_collection"
    THEN [outcome |-> Return(<<TRUE>>), ops |-> {"get_collection", "create_collection"},
          store |-> "ok"]
    ELSE [outcome |-> Return(<<FALSE>>), ops |-> {"get_collection"}, store |-> st]

(* The script helper, called with an open client: the store is one a       *)
(* client can open. No retriever's coroutine is suspended meanwhile.        *)
GetOrCreateCollection ==
    /\ pending.pc = "none"
    /\ store # "unreachable"
    /\ \E g \in {GetOrCreateCollectionCall(store)} :
        /\ lastOp' = "get_or_create_collection"
        /\ result' = g.outcome
        /\ backendOps' = backendOps \cup g.ops
        /\ store' = g.store
        /\ collection' = IF g.store # store THEN CreatedCollection ELSE collection
    /\ lastText' = PyNone
    /\ retrieved' = NoOutcome
    /\ combined' = NoOutcome
    /\ counted' = NoOutcome
    /\ lastQueries' = 0
    /\ lastBackend' = <<>>
    /\ UNCHANGED <<pending, agent, agentLog, phase, options, queryCalls, calls,
                   lastResponse>>

(* What the loader and the splitter make of a file: the chunks, each with  *)
(* its page_content, its metadata and the distance the backend will report *)
(* for it; no chunk at all for an empty document.                         *)
ChunkLists == {h \in HitLists : Len(h) <= 1}

(* load_and_split_document(collection, file_path) with the chunks of the   *)
(* file: collection.add(documents, metadatas, ids) is called once and      *)
(* len(chunks) is returned; an exception of the backend leaves the         *)
(* function.                                                               *)
LoadAndSplitDocumentCall(coll, chunks) ==
    IF coll.raises
    THEN [outcome |-> Raise("Exception"), ops |-> {"add"}, hits |-> coll.hits]
    ELSE [outcome |-> Return(<<Len(chunks)>>), ops |-> {"add"},
          hits |-> coll.hits \o chunks]

(* The script helper, called with the collection of a store that has one.  *)
(* The collection answers with at most MaxHits hits.                       *)
LoadAndSplitDocument(chunks) ==
    /\ pending.pc = "none"
    /\ store = "ok"
    /\ Len(collection.hits) + Len(chunks) <= MaxHits
    /\ \E l \in {LoadAndSplitDocumentCall(collection, chunks)} :
        /\ lastOp' = "load_and_split_document"
        /\ result' = l.outcome
        /\ backendOps' = backendOps \cup l.ops
        /\ collection' = [collection EXCEPT !.hits = l.hits]
    /\ lastText' = PyNone
    /\ retrieved' = NoOutcome
    /\ combined' = NoOutcome
    /\ counted' = NoOutcome
    /\ lastQueries' = 0
    /\ lastBackend' = <<>>
    /\ UNCHANGED <<pending, agent, agentLog, phase, store, options, queryCalls,
                   calls, lastResponse>>

(* A call of one of its methods, awaited: the coroutine runs to the await  *)
(* of retrieve                                                             *)
LegacyRetrieve(text) ==
    /\ phase = "Ready"
    /\ pending.pc = "none"
    /\ \E r \in {LegacyRetrieveCall(options, collection, text)} :
        /\ queryCalls + r.queries <= MaxCalls
        /\ Suspend(LegacyOp(1), text, r.queries)
    /\ UNCHANGED <<agent, agentLog, phase, store, options, collection, calls, lastResponse>>

LegacyRetrieveAndCombineResults(text) ==
    /\ phase = "Ready"
    /\ pending.pc = "none"
    /\ \E r \in {LegacyRetrieveCall(options, collection, text)} :
        /\ queryCalls + r.queries <= MaxCalls
        /\ Suspend(LegacyOp(2), text, r.queries)
    /\ UNCHANGED <<agent, agentLog, phase, store, options, collection, calls, lastResponse>>

LegacyRetrieveAndGenerate(text) ==
    /\ phase = "Ready"
    /\ pending.pc = "none"
    /\ \E r \in {LegacyRetrieveCall(options, collection, text)} :
        /\ queryCalls + r.queries <= MaxCalls
        /\ Suspend(LegacyOp(3), text, r.queries)
    /\ UNCHANGED <<agent, agentLog, phase, store, options, collection, calls, lastResponse>>

(* The event loop resumes the suspended coroutine, which runs to its return *)
LegacyResume ==
    /\ pending.pc = "answered"
    /\ pending.op \in LegacyOps
    /\ \E r \in {LegacyResumeCall(options, pending.response)} :
        Returning(r, LegacyCombineStep(pending.op, r), LegacyAfterRetrieve(pending.op, r))
    /\ UNCHANGED calls

(* Before the constructor is called *)
InitLegacy == InitLifecycle

NextLegacy ==
    \/ LegacyConstruct
    \/ GetOrCreateCollection
    \/ \E chunks \in ChunkLists : LoadAndSplitDocument(chunks)
    \/ \E text \in LegacyTexts : LegacyRetrieve(text)
    \/ \E text \in LegacyTexts : LegacyRetrieveAndCombineResults(text)
    \/ \E text \in LegacyTexts : LegacyRetrieveAndGenerate(text)
    \/ ExecutorQuery
    \/ LegacyResume

SpecLegacy == InitLegacy /\ [][NextLegacy]_vars

-----------------------------------------------------------------------------
(* retrieve of the two retrievers, src/src/utils/db/chroma_retriever.py    *)
(* and src/chroma_retriever.py, each constructed over the same backend     *)

NextRetrievers ==
    \/ \E text \in Texts : Retrieve(text)
    \/ \E text \in LegacyTexts : LegacyRetrieve(text)
    \/ ExecutorQuery
    \/ ResumeRetrieve
    \/ LegacyResume

SpecRetrievers == Init /\ [][NextRetrievers]_vars

-----------------------------------------------------------------------------
(* Concurrent calls on one retriever: each call is a coroutine that is     *)
(* suspended only at await run_in_executor(None, self._execute_query,      *)
(* text); the query runs on an executor thread and the event loop resumes  *)
(* the coroutine, which then runs to its return without another await.     *)

NumCalls == 2

ConcurrentOps == {"retrieve", "retrieve_and_combine_results"}

ConcurrentTexts == {PyStr(<<"q">>), PyStr(<<" ">>), PyInt(123)}

(* What the backend may answer to the query of one call *)
ConcurrentCollections ==
    { [raises |-> TRUE, hits |-> <<>>, shape |-> "ok"],
      [raises |-> FALSE, hits |-> <<Hit(<<"a">>, MetaA, 20000)>>, shape |-> "ok"],
      [raises |-> FALSE,
       hits |-> <<Hit(<<"b">>, MetaB, 40000), Hit(<<"a">>, MetaA, 20000)>>,
       shape |-> "ok"],
      [raises |-> FALSE, hits |-> <<Hit(<<"b">>, MetaB, 40000)>>,
       shape |-> "no_metadatas"] }

ConcurrentOptions == {o \in OptionsSet : o.similarity_threshold \in {0, 70000}}

(* A coroutine that has not been called yet *)
IdleCall ==
    [pc |-> "idle", op |-> "none", text |-> PyNone,
     answered |-> [raises |-> TRUE, hits |-> <<>>, shape |-> "ok"],
     response |-> ExecuteQuery([raises |-> TRUE, hits |-> <<>>, shape |-> "ok"]),
     stamp |-> 0, outcome |-> NoOutcome]

(* The thread of the event loop is not inside a blocking backend call *)
LoopFree == \A id \in DOMAIN calls : calls[id].pc # "counting"

SharedResults(cs, id, latest) == latest

(* results = await ...: the response is a local variable of the coroutine  *)
(* id; latest is the response delivered most recently to any coroutine.    *)
LocalResults(cs, id, latest) == cs[id].response

InitConcurrent ==
    /\ phase = "Ready"
    /\ store = "ok"
    /\ options \in ConcurrentOptions
    /\ collection \in ConcurrentCollections
    /\ backendOps = ConstructionOps
    /\ queryCalls = 0
    /\ lastQueries = 0
    /\ lastOp = "none"
    /\ lastText = PyNone
    /\ retrieved = NoOutcome
    /\ combined = NoOutcome
    /\ counted = NoOutcome
    /\ result = NoOutcome
    /\ calls = [id \in 1..NumCalls |-> IdleCall]
    /\ lastResponse = <<>>
    /\ lastBackend = <<>>
    /\ agent = NoAgent
    /\ agentLog = NoAgentLog
    /\ pending = NoPending

(* Coroutine id is called: it runs up to its first suspension, the await   *)
(* of the executor, or to its return when the guard of line 118 ends it.   *)
(* Coroutines are numbered in the order in which they are called.          *)
Begin(id, op, text) ==
    \E r \in {RetrieveCall(options, collection, text)} :
        /\ phase = "Ready"
        /\ LoopFree
        /\ calls[id].pc = "idle"
        /\ id > 1 => calls[id - 1].pc # "idle"
        /\ calls' = [calls EXCEPT ![id] =
                        IF r.queries = 0
                        THEN [@ EXCEPT !.pc = "done", !.op = op, !.text = text,
                                       !.outcome = AfterRetrieve(op, r.outcome)]
                        ELSE [@ EXCEPT !.pc = "querying", !.op = op, !.text = text]]
        /\ UNCHANGED <<pending, agent, agentLog, lastBackend, phase, store, options, collection, backendOps, queryCalls,
                       lastQueries, lastOp, lastText, retrieved, combined, counted,
                       result, lastResponse>>

(* The executor thread of coroutine id finishes _execute_query: the        *)
(* backend answered as coll does.                                          *)
Complete(id, coll) ==
    /\ calls[id].pc = "querying"
    /\ calls' = [calls EXCEPT ![id] =
                    [@ EXCEPT !.pc = "answered", !.answered = coll,
                              !.response = ExecuteQuery(coll),
                              !.stamp = queryCalls + 1]]
    /\ queryCalls' = queryCalls + 1
    /\ backendOps' = backendOps \cup QueryOps(1)
    /\ lastResponse' = ExecuteQuery(coll)
    /\ UNCHANGED <<pending, agent, agentLog, lastBackend, phase, store, options, collection, lastQueries, lastOp, lastText,
                   retrieved, combined, counted, result>>

(* The event loop resumes coroutine id, which runs to its return *)
Resume(id) ==
    /\ LoopFree
    /\ calls[id].pc = "answered"
    /\ calls' = [calls EXCEPT ![id] =
                    [@ EXCEPT !.pc = "done",
                              !.outcome =
                                  AfterRetrieve(calls[id].op,
                                      ResumeCall(options,
                                          LocalResults(calls, id, lastResponse)))]]
    /\ UNCHANGED <<pending, agent, agentLog, lastBackend, phase, store, options, collection, backendOps, queryCalls,
                   lastQueries, lastOp, lastText, retrieved, combined, counted,
                   result, lastResponse>>

NextConcurrent ==
    \/ \E id \in 1..NumCalls, op \in ConcurrentOps, text \in ConcurrentTexts :
           Begin(id, op, text)
    \/ \E id \in 1..NumCalls, coll \in ConcurrentCollections : Complete(id, coll)
    \/ \E id \in 1..NumCalls : Resume(id)

SpecConcurrent == InitConcurrent /\ [][NextConcurrent]_vars

-----------------------------------------------------------------------------
(* The same coroutines with health_check and retrieve_and_generate among   *)
(* them. health_check calls self.collection.count() directly, without an   *)
(* executor and without an await: the call runs on the thread of the event *)
(* loop, and no coroutine runs until it returns.                           *)

(* Coroutine id is called as health_check and enters collection.count() *)
HealthBegin(id) ==
    /\ phase = "Ready"
    /\ LoopFree
    /\ calls[id].pc = "idle"
    /\ id > 1 => calls[id - 1].pc # "idle"
    /\ calls' = [calls EXCEPT ![id] =
                    [@ EXCEPT !.pc = "counting", !.op = "health_check"]]
    /\ backendOps' = backendOps \cup {"count"}
    /\ UNCHANGED <<pending, agent, agentLog, lastBackend, phase, store, options, collection,
                   queryCalls, lastQueries, lastOp, lastText, retrieved, combined,
                   counted, result, lastResponse>>

(* collection.count() returns or raises as c, and health_check returns *)
HealthEnd(id, c) ==
    /\ calls[id].pc = "counting"
    /\ calls' = [calls EXCEPT ![id] =
                    [@ EXCEPT !.pc = "done", !.outcome = HealthCheckCall(options, c)]]
    /\ UNCHANGED <<pending, agent, agentLog, lastBackend, phase, store, options, collection,
                   backendOps, queryCalls, lastQueries, lastOp, lastText, retrieved,
                   combined, counted, result, lastResponse>>

NextLoop ==
    \/ NextConcurrent
    \/ \E id \in 1..NumCalls, text \in ConcurrentTexts :
           Begin(id, "retrieve_and_generate", text)
    \/ \E id \in 1..NumCalls : HealthBegin(id)
    \/ \E id \in 1..NumCalls, c \in CountOutcomes : HealthEnd(id, c)

SpecLoop == InitConcurrent /\ [][NextLoop]_vars

-----------------------------------------------------------------------------
(* A run of calls on one retriever against an unchanged backend, the      *)
(* query text a str, so that retrieve always returns a list. The log       *)
(* keeps, for each call, the list object its retrieve returned, what that  *)
(* list held then, what the method returned, and what the list the call    *)
(* made holds now.                                                         *)

MaxRepeat == 3

RepeatOps == {"retrieve", "retrieve_and_combine_results", "retrieve_and_generate"}

RepeatTexts == {PyStr(<<"q">>), PyStr(<<" ", "q", " ">>), PyStr(<<" ">>)}

ReturnedListCached(log, text) ==
    LET same == {k \in 1..Len(log) : log[k].text = text}
    IN  IF same = {} THEN Len(log) + 1
        ELSE log[CHOOSE k \in same : \A m \in same : k <= m].list

(* The list object retrieve returns, lists numbered by the call that made  *)
(* them: formatted_results = [] (line 133), like the [] of an early        *)
(* return, makes a new list in every call.                                 *)
ReturnedList(log, text) == Len(log) + 1

(* What list id holds when retrieve returns it: docs if this call made it *)
ListContents(log, id, docs) == IF id > Len(log) THEN docs ELSE log[id].contents

(* results.sort(key=..., reverse=True) of retrieve_and_combine_results     *)
(* reorders the list retrieve returned to it, in place; an empty list      *)
(* returns before the sort.                                                *)
SortedInPlace(op, contents) ==
    IF op = "retrieve" \/ contents = <<>> THEN contents
    ELSE SortBySimilarity(contents)

(* The log after a call of op(text) whose retrieve returned list id        *)
(* holding got: the call is appended with what its retrieve and the method *)
(* itself returned, and list id holds what the method left in it.          *)
LoggedCall(log, op, text, id, got) ==
    Append(IF id > Len(log) THEN log
           ELSE [log EXCEPT ![id].contents = SortedInPlace(op, got)],
           [op |-> op, text |-> text, list |-> id,
            contents |-> IF id > Len(log) THEN SortedInPlace(op, got) ELSE <<>>,
            retrieved |-> Return(got),
            outcome |-> AfterRetrieve(op, Return(got))])

InitRepeat ==
    /\ phase = "Ready"
    /\ store = "ok"
    /\ options \in ConcurrentOptions
    /\ collection \in ConcurrentCollections
    /\ backendOps = ConstructionOps
    /\ queryCalls = 0
    /\ lastQueries = 0
    /\ lastOp = "none"
    /\ lastText = PyNone
    /\ retrieved = NoOutcome
    /\ combined = NoOutcome
    /\ counted = NoOutcome
    /\ result = NoOutcome
    /\ calls = <<>>
    /\ lastResponse = <<>>
    /\ lastBackend = <<>>
    /\ agent = NoAgent
    /\ agentLog = NoAgentLog
    /\ pending = NoPending

(* One call of op(text), awaited: returned at once and appended to the     *)
(* log when the query text is blank, suspended at the await otherwise      *)
RepeatCall(op, text) ==
    /\ phase = "Ready"
    /\ pending.pc = "none"
    /\ Len(calls) < MaxRepeat
    /\ \E r \in {RetrieveCall(options, collection, text)} :
        \E id \in {ReturnedList(calls, text)} :
        \E docs \in {Return(ListContents(calls, id, r.outcome.value))} :
            /\ IF r.queries = 0
               THEN /\ lastOp' = op
                    /\ lastText' = text
                    /\ retrieved' = docs
                    /\ combined' = CombineStep(op, docs)
                    /\ counted' = NoOutcome
                    /\ result' = AfterRetrieve(op, docs)
                    /\ lastQueries' = 0
                    /\ lastBackend' = <<>>
                    /\ calls' = LoggedCall(calls, op, text, id, docs.value)
                    /\ UNCHANGED <<pending, queryCalls, backendOps>>
               ELSE Suspend(op, text, r.queries) /\ UNCHANGED calls
            /\ UNCHANGED <<agent, agentLog, phase, store, options, collection,
                           lastResponse>>

(* The suspended call is resumed, returns and is appended to the log *)
RepeatResume ==
    /\ pending.pc = "answered"
    /\ \E r \in {ResumeCall(options, pending.response)} :
       \E id \in {ReturnedList(calls, pending.text)} :
       \E docs \in {Return(ListContents(calls, id, r.value))} :
        /\ Returning(docs, CombineStep(pending.op, docs), AfterRetrieve(pending.op, docs))
        /\ calls' = LoggedCall(calls, pending.op, pending.text, id, docs.value)

NextRepeat ==
    \/ \E op \in RepeatOps, text \in RepeatTexts : RepeatCall(op, text)
    \/ ExecutorQuery
    \/ RepeatResume

SpecRepeat == InitRepeat /\ [][NextRepeat]_vars

-----------------------------------------------------------------------------
(* Vocabulary of the properties *)

NonBlankStr(text) == text.type = "str" /\ Strip(text.val) # <<>>

BlankStr(text) == text.type = "str" /\ Strip(text.val) = <<>>

Returned(op) == lastOp = op /\ result.kind = "return"

Distances == Column(collection.hits, "distance")

AllIn(seq, lo, hi) == \A i \in 1..Len(seq) : lo <= seq[i] /\ seq[i] <= hi

Scores(docs) == Column(docs, "similarity_score")

-----------------------------------------------------------------------------
(* C1: every document returned by retrieve carries a similarity_score that *)
(* is greater than or equal to the configured similarity_threshold.        *)
(* The code compares the unrounded score with the threshold and stores     *)
(* round(score, 4): with threshold 0.70004 and distance 0.29996 the stored *)
(* score is 0.7.                                                           *)
C1_ScoreAtLeastThreshold ==
    Returned("retrieve") =>
        \A i \in 1..Len(result.value) :
            result.value[i].similarity_score >= options.similarity_threshold

-----------------------------------------------------------------------------
(* C2: when the backend query raises, or its response lacks 'documents',   *)
(* 'metadatas' or 'distances', retrieve called with a non-blank string     *)
(* returns an empty sequence and no exception escapes.                     *)
BackendFails ==
    \/ collection.raises
    \/ collection.shape \in {"no_documents", "no_metadatas", "no_distances"}

C2_BackendFailureGivesEmpty ==
    (lastOp = "retrieve" /\ NonBlankStr(lastText) /\ BackendFails)
        => result = Return(<<>>)

(* A response without 'metadatas' whose first hit passes the threshold:    *)
(* the KeyError is raised inside the loop and absorbed.                    *)
C2_Witness ==
    /\ lastOp = "retrieve"
    /\ NonBlankStr(lastText)
    /\ lastQueries = 1
    /\ collection.shape = "no_metadatas"
    /\ collection.hits # <<>>
    /\ Passes(Similarity(collection.hits[1].distance), options.similarity_threshold)
    /\ result = Return(<<>>)

-----------------------------------------------------------------------------
(* C3 as stated: retrieve, of the refactored retriever as of the legacy    *)
(* one, called with an empty or whitespace-only string returns an empty    *)
(* sequence and issues no backend query.                                   *)
C3_BlankShortCircuitBothRetrievers ==
    (lastOp \in {"retrieve", LegacyOp(1)} /\ BlankStr(lastText))
        => (result = Return(<<>>) /\ lastQueries = 0)

(* C3 amended: retrieve of the refactored retriever called with an empty   *)
(* or whitespace-only string returns an empty sequence and issues no       *)
(* backend query: the call adds nothing to the count of backend queries.   *)
(* (retrieve of the legacy retriever sends every text to the backend.)     *)
C3_BlankShortCircuit ==
    (lastOp = "retrieve" /\ BlankStr(lastText))
        => (result = Return(<<>>) /\ lastQueries = 0)

(* A whitespace-only query against a backend that would have answered with *)
(* a hit above the threshold, the call counter still at zero.              *)
C3_Witness ==
    /\ lastOp = "retrieve"
    /\ lastText = PyStr(<<" ", "\t", VerticalTab>>)
    /\ WellFormed(collection)
    /\ collection.hits # <<>>
    /\ Passes(Similarity(collection.hits[1].distance), options.similarity_threshold)
    /\ queryCalls = 0
    /\ result = Return(<<>>)

-----------------------------------------------------------------------------
(* C4: retrieve called with a non-string query fails with a TypeError.     *)
(* The code returns [] for None and 0 (not text), and text.strip() raises  *)
(* AttributeError for 123.                                                 *)
C4_NonStringRaisesTypeError ==
    (lastOp = "retrieve" /\ lastText.type # "str")
        => (result.kind = "raise" /\ result.exc = "TypeError")

-----------------------------------------------------------------------------
(* C5 as stated: whatever distance the backend reported, the               *)
(* similarity_score of every returned document lies in [0, 1].             *)
C5_ScoreInUnitIntervalAnyDistance ==
    Returned("retrieve") => AllIn(Scores(result.value), 0, Scale)

(* C5 amended: when the backend's distances are non-negative (distances    *)
(* above 1 included), the similarity_score of every returned document lies *)
(* in [0, 1].                                                              *)
C5_ScoreInUnitInterval ==
    (Returned("retrieve") /\ \A i \in 1..Len(Distances) : Distances[i] >= 0)
        => AllIn(Scores(result.value), 0, Scale)

(* A hit with a distance above 1 is returned with the clamped score 0.     *)
C5_Witness ==
    /\ Returned("retrieve")
    /\ \A i \in 1..Len(Distances) : Distances[i] >= 0
    /\ \E i \in 1..Len(Distances) : Distances[i] > Scale
    /\ \E i \in 1..Len(result.value) : result.value[i].similarity_score = 0

-----------------------------------------------------------------------------
(* C6 as stated: with similarity_threshold 0.7 and backend distances       *)
(* [0.2, 0.4], retrieve returns two documents, in backend order, with      *)
(* similarity_score 0.8 and 0.6.                                           *)
C6_Scenario ==
    /\ lastOp = "retrieve"
    /\ NonBlankStr(lastText)
    /\ WellFormed(collection)
    /\ options.similarity_threshold = 70000
    /\ Distances = <<20000, 40000>>

C6_TwoDocumentsReturned ==
    C6_Scenario =>
        /\ result.kind = "return"
        /\ Len(result.value) = 2
        /\ result.value[1].content = collection.hits[1].content
        /\ result.value[1].similarity_score = 80000
        /\ result.value[2].content = collection.hits[2].content
        /\ result.value[2].similarity_score = 60000

-----------------------------------------------------------------------------
(* C7: for a response of parallel arrays, the sequence returned by         *)
(* retrieve is exactly the subsequence of backend hits whose similarity is *)
(* at least the threshold: backend order is kept, no hit at or above the   *)
(* threshold is dropped, and each returned document carries the content    *)
(* and metadata of its own hit.                                            *)
C7_Surviving ==
    SelectSeq(collection.hits,
              LAMBDA h : Scale - Min(h.distance, Scale) >= options.similarity_threshold)

C7_ExactSubsequence ==
    (lastOp = "retrieve" /\ NonBlankStr(lastText) /\ WellFormed(collection)) =>
        /\ result.kind = "return"
        /\ Len(result.value) = Len(C7_Surviving)
        /\ \A i \in 1..Len(C7_Surviving) :
               /\ result.value[i].content = C7_Surviving[i].content
               /\ result.value[i].metadata = C7_Surviving[i].metadata

(* Two hits, the first below the threshold and dropped, the second exactly *)
(* at the threshold and kept with its own content and metadata.            *)
C7_Witness ==
    /\ lastOp = "retrieve"
    /\ NonBlankStr(lastText)
    /\ WellFormed(collection)
    /\ Len(collection.hits) >= 2
    /\ ~Passes(Similarity(collection.hits[1].distance), options.similarity_threshold)
    /\ Scale - Min(collection.hits[2].distance, Scale) = options.similarity_threshold
    /\ collection.hits[1].metadata # collection.hits[2].metadata
    /\ Len(result.value) >= 1
    /\ result.value[1].content = collection.hits[2].content
    /\ result.value[1].metadata = collection.hits[2].metadata

-----------------------------------------------------------------------------
(* C8: whenever retrieve returns an empty sequence,                        *)
(* retrieve_and_combine_results returns exactly                            *)
(* {combined_content: "", sources: [], total_sources: 0} and               *)
(* retrieve_and_generate returns exactly                                   *)
(* {generated_content: "", summary: "", sources: [], total_sources: 0}.    *)
C8_EmptyPropagates ==
    /\ (lastOp = "retrieve_and_combine_results" /\ retrieved = Return(<<>>))
           => result = Return([combined_content |-> <<>>, sources |-> <<>>,
                               total_sources |-> 0])
    /\ (lastOp = "retrieve_and_generate" /\ retrieved = Return(<<>>))
           => result = Return([generated_content |-> <<>>, summary |-> <<>>,
                               sources |-> <<>>, total_sources |-> 0])

(* retrieve_and_generate over a backend whose hits are all below the       *)
(* threshold: the query is issued, retrieve returns [], the result is the  *)
(* all-empty shape.                                                        *)
C8_Witness ==
    /\ lastOp = "retrieve_and_generate"
    /\ lastQueries = 1
    /\ WellFormed(collection)
    /\ collection.hits # <<>>
    /\ retrieved = Return(<<>>)
    /\ result.value.generated_content = <<>>
    /\ result.value.total_sources = 0

-----------------------------------------------------------------------------
(* C9: retrieve_and_combine_results orders the retrieved documents by      *)
(* similarity_score descending with a stable sort: in combined_content and *)
(* in sources a higher score precedes a lower one, and documents of equal  *)
(* score keep the order in which retrieve returned them.                   *)
C9_Orders(r) ==
    {p \in Permutations(1..Len(r)) :
        \A k, l \in 1..Len(r) :
            k < l => \/ r[p[k]].similarity_score > r[p[l]].similarity_score
                     \/ /\ r[p[k]].similarity_score = r[p[l]].similarity_score
                        /\ p[k] < p[l]}

C9_StableDescending ==
    (lastOp = "retrieve_and_combine_results" /\ retrieved.kind = "return"
        /\ retrieved.value # <<>>) =>
        LET r == retrieved.value
            n == Len(r)
        IN  /\ result.kind = "return"
            /\ Len(result.value.sources) = n
            /\ \E p \in C9_Orders(r) :
                   /\ \A k \in 1..n :
                          /\ result.value.sources[k].metadata = r[p[k]].metadata
                          /\ result.value.sources[k].similarity_score
                                 = r[p[k]].similarity_score
                          /\ result.value.sources[k].content_preview
                                 = ContentPreview(r[p[k]].content)
                   /\ result.value.combined_content
                          = Join(Separator, [k \in 1..n |-> Label(k, r[p[k]])])

(* Two documents of equal similarity_score and different content stay in   *)
(* the order of retrieve.                                                  *)
C9_Witness ==
    /\ lastOp = "retrieve_and_combine_results"
    /\ retrieved.kind = "return"
    /\ Len(retrieved.value) >= 2
    /\ retrieved.value[1].similarity_score = retrieved.value[2].similarity_score
    /\ retrieved.value[1].content # retrieved.value[2].content
    /\ result.value.sources[1].content_preview
           = ContentPreview(retrieved.value[1].content)
    /\ result.value.sources[2].content_preview
           = ContentPreview(retrieved.value[2].content)

-----------------------------------------------------------------------------
(* C10: for n > 0 documents, combined_content is the documents' contents   *)
(* in sorted order, the k-th (1-based, numbered after sorting) prefixed    *)
(* with the label "Document k:" on a line of its own, consecutive          *)
(* documents separated by blank line, '---', blank line; the separator     *)
(* occurs exactly n-1 times as a joiner.                                   *)
RECURSIVE C10_Text(_, _)
C10_Text(docs, k) ==
    LET piece == <<"D", "o", "c", "u", "m", "e", "n", "t", " ">> \o IntToStr(k)
                     \o <<":", "\n">> \o docs[k].content
    IN  IF k = 1 THEN piece
        ELSE C10_Text(docs, k - 1) \o <<"\n", "\n", "-", "-", "-", "\n", "\n">> \o piece

RECURSIVE C10_PiecesLen(_, _)
C10_PiecesLen(docs, k) ==
    IF k = 0 THEN 0
    ELSE C10_PiecesLen(docs, k - 1) + 9 + Len(IntToStr(k)) + 2 + Len(docs[k].content)

C10_JoinFormat ==
    (lastOp = "retrieve_and_combine_results" /\ retrieved.kind = "return"
        /\ retrieved.value # <<>>) =>
        LET docs == SortBySimilarity(retrieved.value)
            n == Len(retrieved.value)
        IN  /\ result.value.combined_content = C10_Text(docs, n)
            /\ Len(result.value.combined_content)
                   = C10_PiecesLen(docs, n) + (n - 1) * 7

(* Two documents that the sort swaps: the one retrieve returned second is  *)
(* labelled "Document 1:".                                                 *)
C10_Witness ==
    /\ lastOp = "retrieve_and_combine_results"
    /\ retrieved.kind = "return"
    /\ Len(retrieved.value) >= 2
    /\ retrieved.value[1].similarity_score < retrieved.value[2].similarity_score
    /\ retrieved.value[2].content # <<>>
    /\ SubSeq(result.value.combined_content, 1, 12 + Len(retrieved.value[2].content))
           = <<"D", "o", "c", "u", "m", "e", "n", "t", " ", "1", ":", "\n">>
                 \o retrieved.value[2].content

-----------------------------------------------------------------------------
(* C11: each entry of sources returned by retrieve_and_combine_results has *)
(* a content_preview that is the document's content unmodified when the    *)
(* content has at most 100 characters, and exactly the first 100           *)
(* characters followed by the three dots of the ellipsis when the content  *)
(* has more than 100 characters; the entries follow the sorted order.      *)
C11_PreviewOf(preview, content) ==
    IF Len(content) <= 100 THEN preview = content
    ELSE /\ Len(preview) = 103
         /\ \A j \in 1..100 : preview[j] = content[j]
         /\ \A j \in 101..103 : preview[j] = "."

C11_ContentPreview ==
    (lastOp = "retrieve_and_combine_results" /\ retrieved.kind = "return"
        /\ retrieved.value # <<>>) =>
        LET docs == SortBySimilarity(retrieved.value)
        IN  /\ Len(result.value.sources) = Len(docs)
            /\ \A k \in 1..Len(docs) :
                   C11_PreviewOf(result.value.sources[k].content_preview, docs[k].content)

(* One call whose sources hold a document of exactly 100 characters, kept  *)
(* whole, and a document of 101 characters, cut to 100 plus the ellipsis.  *)
C11_Witness ==
    /\ lastOp = "retrieve_and_combine_results"
    /\ result.kind = "return"
    /\ \E k \in 1..Len(result.value.sources) :
           /\ Len(result.value.sources[k].content_preview) = 100
           /\ \E i \in 1..Len(retrieved.value) :
                  retrieved.value[i].content = result.value.sources[k].content_preview
    /\ \E k \in 1..Len(result.value.sources) :
           /\ Len(result.value.sources[k].content_preview) = 103
           /\ \E i \in 1..Len(retrieved.value) : Len(retrieved.value[i].content) = 101

-----------------------------------------------------------------------------
(* C12: in every result of retrieve_and_combine_results and of             *)
(* retrieve_and_generate, total_sources equals the length of sources and   *)
(* the number of documents the underlying retrieve call returned; for a    *)
(* non-blank query against a response of parallel arrays that is the       *)
(* number of hits whose similarity is at least the threshold.              *)
C12_Passing ==
    Cardinality({i \in 1..Len(collection.hits) :
                    Scale - Min(collection.hits[i].distance, Scale)
                        >= options.similarity_threshold})

C12_TotalSources ==
    (lastOp \in {"retrieve_and_combine_results", "retrieve_and_generate"}) =>
        /\ result.kind = "return"
        /\ result.value.total_sources = Len(result.value.sources)
        /\ result.value.total_sources
               = (IF retrieved.kind = "return" THEN Len(retrieved.value) ELSE 0)
        /\ (NonBlankStr(lastText) /\ WellFormed(collection))
               => result.value.total_sources = C12_Passing

(* retrieve_and_generate over two hits of which only the second passes    *)
(* the threshold: one source is counted.                                   *)
C12_Witness ==
    /\ lastOp = "retrieve_and_generate"
    /\ NonBlankStr(lastText)
    /\ WellFormed(collection)
    /\ Len(collection.hits) = 2
    /\ ~Passes(Similarity(collection.hits[1].distance), options.similarity_threshold)
    /\ C12_Passing = 1
    /\ result.value.total_sources = 1
    /\ Len(result.value.sources) = 1

-----------------------------------------------------------------------------
(* C14: retrieve_and_combine_results and retrieve_and_generate called with *)
(* a non-string query (for example the integer 123) raise a TypeError to   *)
(* the caller.                                                             *)
(* The code has no type check: None and 0 take the blank-query return of   *)
(* retrieve, 123 raises AttributeError in retrieve, and the except clause  *)
(* of retrieve_and_combine_results turns that into the all-empty result.   *)
C14_NonStringRaisesTypeError ==
    (lastOp \in {"retrieve_and_combine_results", "retrieve_and_generate"}
        /\ lastText.type # "str")
        => (result.kind = "raise" /\ result.exc = "TypeError")

-----------------------------------------------------------------------------
(* C13: retrieve_and_combine_results and retrieve_and_generate never raise *)
(* past their public boundary: whatever the query, and whatever fails      *)
(* inside (retrieve raising, the combine step raising, a document record   *)
(* or a combined result that lacks a key), each returns its all-empty      *)
(* result.                                                                 *)
C13_RetrieveFailed ==
    \/ retrieved.kind = "raise"
    \/ /\ retrieved.kind = "return"
       /\ \E i \in 1..Len(retrieved.value) :
              \E key \in {"content", "metadata", "similarity_score"} :
                  key \notin DOMAIN retrieved.value[i]

C13_CombineFailed ==
    \/ combined.kind = "raise"
    \/ /\ combined.kind = "return"
       /\ "combined_content" \notin DOMAIN combined.value

C13_NeverRaises ==
    /\ lastOp = "retrieve_and_combine_results" =>
           /\ result.kind = "return"
           /\ C13_RetrieveFailed =>
                  result.value = [combined_content |-> <<>>, sources |-> <<>>,
                                  total_sources |-> 0]
    /\ lastOp = "retrieve_and_generate" =>
           /\ result.kind = "return"
           /\ (C13_RetrieveFailed \/ C13_CombineFailed) =>
                  result.value = [generated_content |-> <<>>, summary |-> <<>>,
                                  sources |-> <<>>, total_sources |-> 0]

(* retrieve hands over two records, the first complete and the second      *)
(* without 'content': the KeyError is absorbed and the result is empty.    *)
C13_Witness ==
    /\ lastOp = "retrieve_and_combine_results"
    /\ retrieved.kind = "return"
    /\ Len(retrieved.value) = 2
    /\ "content" \in DOMAIN retrieved.value[1]
    /\ "content" \notin DOMAIN retrieved.value[2]
    /\ result.kind = "return"
    /\ result.value.sources = <<>>

-----------------------------------------------------------------------------
(* C15: when the combine step yields non-empty combined_content,           *)
(* retrieve_and_generate takes the summary from the content_preview of the *)
(* first source if that source has one, and otherwise from the first       *)
(* paragraph of the combined content, the text before its first blank line *)
(* (the whole content if it has none); a candidate of at most 200          *)
(* characters is the summary, a longer one only starts it.                 *)
C15_Usable ==
    /\ lastOp = "retrieve_and_generate"
    /\ combined.kind = "return"
    /\ {"combined_content", "sources", "total_sources"} \subseteq DOMAIN combined.value
    /\ combined.value.combined_content # <<>>

C15_HasPreview ==
    /\ combined.value.sources # <<>>
    /\ "content_preview" \in DOMAIN combined.value.sources[1]

(* The number of characters before the first pair of adjacent newlines *)
C15_ParagraphLen(c) ==
    Cardinality({k \in 1..Len(c) :
                    \A j \in 1..k : ~(j < Len(c) /\ c[j] = "\n" /\ c[j + 1] = "\n")})

C15_Candidate ==
    IF C15_HasPreview THEN combined.value.sources[1].content_preview
    ELSE [k \in 1..C15_ParagraphLen(combined.value.combined_content) |->
              combined.value.combined_content[k]]

C15_SummarySource ==
    C15_Usable =>
        /\ result.kind = "return"
        /\ Len(C15_Candidate) <= 200 => result.value.summary = C15_Candidate
        /\ Len(C15_Candidate) > 200 =>
               SubSeq(result.value.summary, 1, 197) = SubSeq(C15_Candidate, 1, 197)
        /\ result.value.generated_content = combined.value.combined_content

(* Combined content "F.\n\nS." with one source that has no content_preview *)
(* gives the summary "F.".                                                 *)
C15_Witness ==
    /\ C15_Usable
    /\ combined.value.combined_content = <<"F", ".", "\n", "\n", "S", ".">>
    /\ Len(combined.value.sources) = 1
    /\ "content_preview" \notin DOMAIN combined.value.sources[1]
    /\ result.value.summary = <<"F", ".">>

-----------------------------------------------------------------------------
(* C16: the summary returned by retrieve_and_generate never exceeds 200    *)
(* characters: a candidate summary longer than 200 characters is replaced  *)
(* by its first 197 characters followed by three dots, and a candidate of  *)
(* at most 200 characters is returned unchanged.                           *)
C16_SummaryCapped ==
    /\ lastOp = "retrieve_and_generate" =>
           (result.kind = "return" /\ Len(result.value.summary) <= 200)
    /\ C15_Usable =>
           result.value.summary
               = (IF Len(C15_Candidate) > 200
                  THEN SubSeq(C15_Candidate, 1, 197) \o <<".", ".", ".">>
                  ELSE C15_Candidate)

(* A first paragraph of 201 characters becomes a summary of 200 characters *)
(* that ends in the three dots.                                            *)
C16_Witness ==
    /\ C15_Usable
    /\ ~C15_HasPreview
    /\ Len(C15_Candidate) = 201
    /\ Len(result.value.summary) = 200
    /\ result.value.summary[197] = C15_Candidate[197]
    /\ \A j \in 198..200 : result.value.summary[j] = "."

-----------------------------------------------------------------------------
(* C17: health_check never raises: it returns healthy = true with a        *)
(* message naming the collection and its document count exactly when the   *)
(* backend count call succeeds, and healthy = false with a message that    *)
(* carries the text of the failure exactly when the count call raises.     *)
RECURSIVE C17_Decimal(_)
C17_Decimal(digits) ==
    IF digits = <<>> THEN 0
    ELSE 10 * C17_Decimal(SubSeq(digits, 1, Len(digits) - 1))
             + (CHOOSE d \in 0..9 : Digit(d) = digits[Len(digits)])

C17_HealthCheckNeverRaises ==
    lastOp = "health_check" =>
        /\ result.kind = "return"
        /\ result.value.healthy = (counted.kind = "return")
        /\ counted.kind = "return" =>
               LET m == result.value.message
               IN  /\ m[2] = options.collection_name
                   /\ Len(m) >= 5
                   /\ C17_Decimal(SubSeq(m, 4, Len(m) - 1)) = counted.value[1]
        /\ counted.kind = "raise" =>
               /\ result.value.message[1] = "Failed to connect to ChromaDB: "
               /\ result.value.message[2] = counted.value[1]

(* A count of 12 is reported as healthy with the digits 1 and 2.           *)
C17_Witness ==
    /\ lastOp = "health_check"
    /\ counted = Return(<<12>>)
    /\ result.value.healthy
    /\ result.value.message[4] = "1"
    /\ result.value.message[5] = "2"

-----------------------------------------------------------------------------
(* C18: constructing a retriever with n_results <= 0, with                 *)
(* similarity_threshold outside [0, 1], with an empty collection_name or   *)
(* with an empty persist_directory fails with the configuration error of   *)
(* the code, a ValueError, and no backend call (client open or collection  *)
(* resolution) has been attempted; such a retriever never becomes Ready.   *)
C18_Invalid ==
    \/ options.n_results <= 0
    \/ options.similarity_threshold < 0
    \/ options.similarity_threshold > Scale
    \/ options.collection_name = ""
    \/ options.persist_directory = ""

C18_InvalidOptionsRejected ==
    C18_Invalid =>
        /\ phase # "Ready"
        /\ backendOps = {}
        /\ lastOp = "__init__" =>
               /\ result.kind = "raise"
               /\ result.exc = "ValueError"
               /\ phase = "Failed"

(* A threshold of 1.5 is rejected although the store cannot be opened: the *)
(* validation came first.                                                  *)
C18_Witness ==
    /\ lastOp = "__init__"
    /\ options.similarity_threshold = 150000
    /\ options.n_results > 0
    /\ options.collection_name # ""
    /\ options.persist_directory # ""
    /\ store = "unreachable"
    /\ result.kind = "raise"
    /\ result.exc = "ValueError"
    /\ backendOps = {}

-----------------------------------------------------------------------------
(* C19: if the named collection does not exist in the backend,             *)
(* construction fails with the backend's collection-not-found error, which *)
(* __init__ re-raises, and the retriever never becomes Ready; on no path   *)
(* through construction or any later operation does the retriever create a *)
(* collection.                                                             *)
C19_MissingCollectionFails ==
    /\ "create_collection" \notin backendOps
    /\ store = "no_collection" =>
           /\ phase # "Ready"
           /\ (lastOp = "__init__" /\ ~C18_Invalid) =>
                  /\ result.kind = "raise"
                  /\ result.exc = "NotFoundError"
                  /\ phase = "Failed"

(* Valid options against a store without the collection: the client was    *)
(* opened, the collection was looked up, and construction failed.          *)
C19_Witness ==
    /\ store = "no_collection"
    /\ ~C18_Invalid
    /\ lastOp = "__init__"
    /\ phase = "Failed"
    /\ backendOps = {"PersistentClient", "get_collection"}
    /\ result.exc = "NotFoundError"

-----------------------------------------------------------------------------
(* C20: for any interleaving of concurrent retrieve and                    *)
(* retrieve_and_combine_results calls on one retriever, each call          *)
(* completes with exactly the result it would produce if it ran alone and  *)
(* the backend gave it the same answer, whatever the order in which the    *)
(* backend calls complete and the coroutines are resumed.                  *)
C20_Alone(c) ==
    IF c.op = "retrieve" THEN RetrieveCall(options, c.answered, c.text).outcome
    ELSE CombineCall(options, c.answered, c.text).outcome

C20_CallsIndependent ==
    \A id \in DOMAIN calls :
        calls[id].pc = "done" => calls[id].outcome = C20_Alone(calls[id])

(* Two calls whose queries completed in the opposite order of the calls,   *)
(* with different backend answers: the first returned two documents, the   *)
(* second its own single document.                                         *)
C20_Witness ==
    /\ calls # <<>>
    /\ calls[1].pc = "done"
    /\ calls[2].pc = "done"
    /\ calls[2].stamp = 1
    /\ calls[1].stamp = 2
    /\ calls[1].op = "retrieve_and_combine_results"
    /\ calls[2].op = "retrieve"
    /\ calls[1].outcome.value.total_sources = 2
    /\ Len(calls[2].outcome.value) = 1
    /\ calls[1].answered # calls[2].answered
    /\ lastResponse = calls[1].response

-----------------------------------------------------------------------------
(* C22: each invocation of retrieve with a non-blank query issues exactly  *)
(* one backend query, with the query text as the single query text,        *)
(* n_results as configured, and documents, metadatas and distances         *)
(* included, whether the query succeeds or fails: a failed call is never   *)
(* retried. retrieve_and_combine_results and retrieve_and_generate issue   *)
(* exactly one query in total, and health_check exactly one count call.    *)
C22_OneBackendCall ==
    /\ (lastOp \in {"retrieve", "retrieve_and_combine_results", "retrieve_and_generate"}
           /\ NonBlankStr(lastText)) =>
           /\ lastQueries = 1
           /\ Len(lastBackend) = 1
           /\ lastBackend[1].op = "query"
           /\ lastBackend[1].query_texts = <<lastText.val>>
           /\ lastBackend[1].n_results = options.n_results
           /\ lastBackend[1].include = <<"documents", "metadatas", "distances">>
    /\ lastOp = "health_check" => lastBackend = <<[op |-> "count"]>>

(* retrieve_and_generate against a backend whose query raises: one query   *)
(* was made and the result is empty.                                       *)
C22_Witness ==
    /\ lastOp = "retrieve_and_generate"
    /\ NonBlankStr(lastText)
    /\ collection.raises
    /\ Len(lastBackend) = 1
    /\ queryCalls = 1
    /\ result.value.total_sources = 0

-----------------------------------------------------------------------------
(* C23: once construction has succeeded the retriever is Ready and stays   *)
(* Ready: no retrieve, retrieve_and_combine_results, retrieve_and_generate *)
(* or health_check call, a call whose backend call fails included, changes *)
(* the options, the store behind the client or the collection behind       *)
(* self.collection; Ready is all that a later call needs to be accepted.   *)
C23_ReadyStaysReady ==
    [][phase = "Ready" =>
          /\ phase' = "Ready"
          /\ options' = options
          /\ store' = store
          /\ collection' = collection]_vars

(* Still Ready after a query that raised and a count that raised.          *)
C23_Witness ==
    /\ phase = "Ready"
    /\ collection.raises
    /\ queryCalls >= 1
    /\ lastOp = "health_check"
    /\ counted.kind = "raise"
    /\ result.value.healthy = FALSE

-----------------------------------------------------------------------------
(* C21: every public method that contacts the backend has the backend call *)
(* as its only suspension point and runs that call off the caller's event  *)
(* loop: while a call's backend call is outstanding the event loop is free *)
(* and a coroutine that is ready to run can run.                           *)
(* health_check calls collection.count() on the thread of the event loop:  *)
(* while the count is outstanding no other coroutine can be begun or       *)
(* resumed.                                                                *)
C21_BackendCallOffLoop ==
    \A id \in DOMAIN calls :
        calls[id].pc \in {"querying", "counting"} => LoopFree

-----------------------------------------------------------------------------
(* C24: calling retrieve twice with the same query against an unchanged,   *)
(* deterministic backend yields identical result sequences (same           *)
(* documents, same order, same scores), also when calls of                 *)
(* retrieve_and_combine_results or retrieve_and_generate on the same query *)
(* happen between the two.                                                 *)
(* Both as the two calls returned them and as the caller finds the two     *)
(* lists afterwards.                                                       *)
C24_RepeatableRetrieve ==
    \A i, j \in DOMAIN calls :
        (i < j /\ calls[i].op = "retrieve" /\ calls[j].op = "retrieve"
            /\ calls[i].text = calls[j].text)
            => /\ calls[i].outcome = calls[j].outcome
               /\ calls[i].contents = calls[j].contents

(* retrieve, retrieve_and_combine_results, retrieve on one query that      *)
(* returns two documents in ascending order of score: the combine step     *)
(* reordered its own list in place, the lists of the two retrieve calls    *)
(* are as they were returned.                                              *)
C24_Witness ==
    /\ Len(calls) = 3
    /\ calls[2].contents # calls[2].retrieved.value
    /\ calls[1].contents = calls[1].outcome.value
    /\ calls[3].contents = calls[3].outcome.value
    /\ calls[1].list # calls[3].list
    /\ calls[1].op = "retrieve"
    /\ calls[2].op = "retrieve_and_combine_results"
    /\ calls[3].op = "retrieve"
    /\ calls[1].text = calls[2].text
    /\ calls[2].text = calls[3].text
    /\ Len(calls[3].outcome.value) = 2
    /\ calls[3].outcome.value[1].similarity_score
           < calls[3].outcome.value[2].similarity_score
    /\ calls[2].outcome.value.sources[1].similarity_score
           = calls[3].outcome.value[2].similarity_score

-----------------------------------------------------------------------------
(* C25 as stated: when retrieve returns documents,                         *)
(* retrieve_and_combine_results, of the refactored retriever as of the     *)
(* legacy one, returns combined_content equal to the documents' contents   *)
(* joined by a single blank line in the order retrieve returned them,      *)
(* sources entries of exactly metadata and similarity_score in that order, *)
(* and total_sources equal to the number of documents.                     *)
RECURSIVE C25_Text(_, _)
C25_Text(docs, k) ==
    IF k = 1 THEN docs[1].content
    ELSE C25_Text(docs, k - 1) \o <<"\n", "\n">> \o docs[k].content

C25_Complete(docs) ==
    \A i \in 1..Len(docs) :
        {"content", "metadata", "similarity_score"} \subseteq DOMAIN docs[i]

C25_PlainJoin ==
    /\ result.kind = "return"
    /\ result.value.combined_content = C25_Text(retrieved.value, Len(retrieved.value))
    /\ result.value.total_sources = Len(retrieved.value)
    /\ Len(result.value.sources) = Len(retrieved.value)
    /\ \A i \in 1..Len(retrieved.value) :
           result.value.sources[i]
               = [metadata |-> retrieved.value[i].metadata,
                  similarity_score |-> retrieved.value[i].similarity_score]

C25_Returned ==
    /\ retrieved.kind = "return"
    /\ retrieved.value # <<>>
    /\ C25_Complete(retrieved.value)

C25_PlainJoinBothRetrievers ==
    (lastOp \in {"retrieve_and_combine_results", "legacy.retrieve_and_combine_results"}
        /\ C25_Returned) => C25_PlainJoin

(* C25 amended: the statement holds of the legacy retriever,               *)
(* src/chroma_retriever.py; the refactored retriever sorts, labels, uses   *)
(* the '---' separator and adds content_preview (C9, C10, C11).            *)
C25_PlainJoinLegacy ==
    (lastOp = "legacy.retrieve_and_combine_results" /\ C25_Returned) => C25_PlainJoin

(* Two documents in ascending order of score, joined in that order.        *)
C25_Witness ==
    /\ lastOp = "legacy.retrieve_and_combine_results"
    /\ C25_Returned
    /\ Len(retrieved.value) = 2
    /\ retrieved.value[1].similarity_score < retrieved.value[2].similarity_score
    /\ result.value.combined_content
           = retrieved.value[1].content \o <<"\n", "\n">> \o retrieved.value[2].content
    /\ result.value.sources[1].similarity_score = retrieved.value[1].similarity_score

-----------------------------------------------------------------------------
(* C26: _execute_query validates its argument before querying: an empty    *)
(* string raises ValueError, a non-string argument (an integer or None)    *)
(* raises TypeError, and an exception raised by the collection's query     *)
(* call is propagated unchanged rather than swallowed.                     *)
(* The code has no validation: the empty string is sent to the backend as  *)
(* a query. The TypeError for 123 and None comes from the slice text[:50]  *)
(* of the logging line.                                                    *)
C26_ExecuteQueryValidates ==
    lastOp = "_execute_query" =>
        /\ lastText = PyStr(<<>>) =>
               (result.kind = "raise" /\ result.exc = "ValueError" /\ lastQueries = 0)
        /\ lastText.type # "str" =>
               (result.kind = "raise" /\ result.exc = "TypeError" /\ lastQueries = 0)
        /\ (NonBlankStr(lastText) /\ collection.raises) =>
               (result.kind = "raise" /\ result.exc = "Exception")

-----------------------------------------------------------------------------
(* C27: in the refactored retriever, retrieve_and_combine_results returns  *)
(* an empty combined_content if and only if total_sources is 0, even when  *)
(* every retrieved document has empty content; retrieve_and_generate       *)
(* returns the all-empty shape only when retrieve returned no document (no *)
(* hit passed the threshold, or an error occurred), and never discards a   *)
(* non-empty sources list.                                                 *)
C27_NoDocuments == retrieved.kind # "return" \/ retrieved.value = <<>>

C27_EmptyIffNoSources ==
    /\ lastOp = "retrieve_and_combine_results" =>
           /\ (result.value.combined_content = <<>>) = (result.value.total_sources = 0)
           /\ (result.value.total_sources = 0) = C27_NoDocuments
    /\ lastOp = "retrieve_and_generate" =>
           /\ (result.value = [generated_content |-> <<>>, summary |-> <<>>,
                               sources |-> <<>>, total_sources |-> 0])
                  = C27_NoDocuments
           /\ combined.value.sources # <<>> =>
                  result.value.sources = combined.value.sources

(* All retrieved documents have empty content, and retrieve_and_generate   *)
(* still returns the non-empty content "Document 1:\n" and the source.     *)
C27_Witness ==
    /\ lastOp = "retrieve_and_generate"
    /\ retrieved.kind = "return"
    /\ retrieved.value # <<>>
    /\ \A i \in 1..Len(retrieved.value) : retrieved.value[i].content = <<>>
    /\ result.value.generated_content # <<>>
    /\ result.value.summary = <<>>
    /\ result.value.total_sources = Len(retrieved.value)

-----------------------------------------------------------------------------
(* C28 as stated: if the backend response has fewer distances or fewer     *)
(* metadata entries than documents, retrieve returns an empty sequence.    *)
C28_Hits == ~collection.raises /\ collection.hits # <<>>

C28_InconsistentGivesEmpty ==
    (lastOp = "retrieve" /\ NonBlankStr(lastText) /\ C28_Hits
        /\ collection.shape \in {"short_distances", "short_metadatas", "empty_metadatas"})
        => result = Return(<<>>)

(* C28 amended: retrieve returns an empty sequence, discarding the hits it *)
(* had already accepted, when a distance is missing for any document, or   *)
(* when the metadata list is non-empty and lacks the entry of a document   *)
(* that passes the threshold. An empty metadata list is not an error       *)
(* (every document gets {}), and a metadata entry missing for a document   *)
(* below the threshold is never looked up: in both cases the documents     *)
(* that pass the threshold are returned.                                   *)
C28_LastPasses ==
    Scale - Min(collection.hits[Len(collection.hits)].distance, Scale)
        >= options.similarity_threshold

C28_Noticed ==
    \/ collection.shape = "short_distances"
    \/ collection.shape = "short_metadatas" /\ Len(collection.hits) >= 2 /\ C28_LastPasses

C28_NoticedInconsistencyGivesEmpty ==
    (lastOp = "retrieve" /\ NonBlankStr(lastText) /\ C28_Hits
        /\ collection.shape \in {"short_distances", "short_metadatas", "empty_metadatas"})
        => /\ result.kind = "return"
           /\ C28_Noticed => result.value = <<>>
           /\ ~C28_Noticed => Len(result.value) = C12_Passing

(* Two hits that both pass the threshold, the second without a metadata    *)
(* entry: the first had been accepted and is discarded with the rest.      *)
C28_Witness ==
    /\ lastOp = "retrieve"
    /\ NonBlankStr(lastText)
    /\ ~collection.raises
    /\ collection.shape = "short_metadatas"
    /\ Len(collection.hits) = 2
    /\ C12_Passing = 2
    /\ result = Return(<<>>)

-----------------------------------------------------------------------------
(* SimpleAgent, src/agents/simpleagents/base_agent.py                      *)

(* process_message calls made on one agent *)
MaxTurns == 2

(* tool calls in one model response *)
MaxToolCalls == 2

(* SimpleAgent("n", "d", ...): provider and model name. The first is the   *)
(* default of __init__.                                                    *)
AgentConfigs ==
    { [model_provider |-> "bedrock", model_name |-> "amazon.nova-pro-v1:0"],
      [model_provider |-> "bedrock", model_name |-> "anthropic.claude-v2"],
      [model_provider |-> "openai", model_name |-> "gpt-4o"] }

(* "nova" in self.model_name.lower(), over the model names of AgentConfigs *)
HasNova(model_name) == model_name = "amazon.nova-pro-v1:0"

(* self.model_provider == "bedrock" and "nova" in self.model_name.lower()  *)
IsNova(a) == a.model_provider = "bedrock" /\ HasNova(a.model_name)

(* f"You are {name}, {description}. Respond concisely and accurately."     *)
(* for name "n" and description "d"                                        *)
DefaultSystemPrompt ==
    <<"Y", "o", "u", " ", "a", "r", "e", " ", "n", ",", " ", "d", ".", " ",
      "R", "e", "s", "p", "o", "n", "d", " ", "c", "o", "n", "c", "i", "s",
      "e", "l", "y", " ", "a", "n", "d", " ", "a", "c", "c", "u", "r", "a",
      "t", "e", "l", "y", ".">>

(* system_prompt arguments: None (as the empty sequence) and "S" *)
SystemPromptArgs == {<<>>, <<"S">>}

(* system_prompt or f"You are ..." *)
SystemPromptOr(system_prompt) ==
    IF system_prompt = <<>> THEN DefaultSystemPrompt ELSE system_prompt

(* A message dict. Keys a dict does not have are <<>> and "". *)
Message(role, content, tool_calls, tool_call_id) ==
    [role |-> role, content |-> content, tool_calls |-> tool_calls,
     tool_call_id |-> tool_call_id]

SystemMessage(system_prompt) == Message("system", PyStr(system_prompt), <<>>, "")

UserMessage(content) == Message("user", PyStr(content), <<>>, "")

AssistantMessage(content) == Message("assistant", content, <<>>, "")

(* {"role": "assistant", "content": None, "tool_calls": [tool_call_obj]}   *)
AssistantToolCall(tool_call) == Message("assistant", PyNone, <<tool_call>>, "")

(* {"role": "tool", "tool_call_id": ..., "content": json.dumps(...)}       *)
ToolMessage(tool_call_id, content) == Message("tool", PyStr(content), <<>>, tool_call_id)

(* The agent after __init__ *)
NewAgent(config, system_prompt) ==
    [model_provider |-> config.model_provider,
     model_name |-> config.model_name,
     system_prompt |-> SystemPromptOr(system_prompt),
     messages |-> <<SystemMessage(SystemPromptOr(system_prompt))>>,
     tool_implementations |-> <<>>]

(* Tool functions given to register_tool, by what a call of them does:     *)
(* return 1, raise RuntimeError("boom"), return a set                      *)
ToolFunctions == {"returns", "raises", "returns_set"}

(* The tool name register_tool is called with, and the names a model       *)
(* response asks for: "z" is never registered                              *)
RegisteredName == "a"

ToolNames == {"a", "z"}

(* A tool call of a response: its id and its function name. The arguments  *)
(* are "{}", which is what json.dumps of an empty input gives.             *)
ToolCall(id, name) == [id |-> id, name |-> name]

ToolCallIds == <<"c1", "c2", "c3", "c4">>

ToolCallLists ==
    UNION { { [i \in 1..n |-> ToolCall(ToolCallIds[i], f[i])] : f \in [1..n -> ToolNames] }
            : n \in 0..MaxToolCalls }

(* What _call_model returns. tool_calls None and [] are both the empty     *)
(* sequence: line 463 only tests truthiness.                               *)
Response(content, tool_calls) == [content |-> content, tool_calls |-> tool_calls]

NoResponse == Response(PyNone, <<>>)

FirstResponses ==
    {Response(PyStr(<<"r">>), <<>>)}
        \cup {Response(PyNone, t) : t \in ToolCallLists \ {<<>>}}

SecondResponses ==
    { Response(PyStr(<<"f">>), <<>>),
      Response(PyStr(<<"f">>), <<ToolCall("c9", RegisteredName)>>) }

UserMessages == {<<"h", "i">>}

(* f"<s>\n{system_content}\n</s>\n\n{msg['content']}" *)
Wrap(system_content, content) ==
    <<"<", "s", ">", "\n">> \o system_content
        \o <<"\n", "<", "/", "s", ">", "\n", "\n">> \o content

(* for msg in self.messages: if msg["role"] == "system":                   *)
(*     system_content = msg["content"]                                     *)
SystemContent(msgs) ==
    LET S == {i \in 1..Len(msgs) : msgs[i].role = "system"}
    IN  IF S = {} THEN PyNone
        ELSE msgs[CHOOSE i \in S : \A j \in S : j <= i].content

(* The position in self.messages of the first element of nova_messages     *)
(* whose role is "user"; roles holds the roles that become "user" entries  *)
(* of nova_messages. 0 if there is none.                                   *)
FirstUser(msgs, roles) ==
    LET U == {i \in 1..Len(msgs) : msgs[i].role \in roles}
    IN  IF U = {} THEN 0 ELSE CHOOSE i \in U : \A j \in U : i <= j

(* What lines 443-454 and 511-528 do to self.messages: nova_messages holds *)
(* the very dicts of self.messages (nova_messages.append(msg)), so the     *)
(* assignment to nova_messages[i]["content"] rewrites the history's first  *)
(* user message. A tool message enters nova_messages as a new dict, whose  *)
(* rewriting leaves the history alone.                                     *)
PrependSystem(msgs, roles) ==
    LET sc == SystemContent(msgs)
        i == FirstUser(msgs, roles)
    IN  IF Falsy(sc) \/ i = 0 THEN msgs
        ELSE IF msgs[i].role # "user" THEN msgs
        ELSE [msgs EXCEPT ![i].content = PyStr(Wrap(sc.val, msgs[i].content.val))]

ToolResultPrefix ==
    <<"T", "o", "o", "l", " ", "r", "e", "s", "u", "l", "t", ":", " ">>

(* The entry of nova_messages for msg, lines 514-521 *)
NovaEntry(msg) ==
    IF msg.role = "tool"
    THEN Message("user", PyStr(ToolResultPrefix \o msg.content.val), <<>>, "")
    ELSE msg

NotSystem(msg) == msg.role # "system"

(* nova_messages as passed to _call_model at line 457: msgs is the history *)
(* after the rewriting                                                     *)
NovaRequest(msgs) == SelectSeq(msgs, NotSystem)

(* nova_messages as passed to _call_model at line 530. The system content  *)
(* goes to the first "user" entry, which is a converted tool message when  *)
(* no user message precedes it.                                            *)
NovaRequestAfterTools(before, msgs) ==
    LET kept == SelectSeq(before, NotSystem)
        i == FirstUser(kept, {"user", "tool"})
        sc == SystemContent(before)
        sent == SelectSeq(msgs, NotSystem)
    IN  [k \in 1..Len(sent) |->
            IF k = i /\ kept[k].role = "tool" /\ ~Falsy(sc)
            THEN Message("user",
                         PyStr(Wrap(sc.val, ToolResultPrefix \o kept[k].content.val)),
                         <<>>, "")
            ELSE NovaEntry(sent[k])]

NotImplementedHead ==
    <<"E", "r", "r", "o", "r", ":", " ", "T", "o", "o", "l", " ", "'">>

NotImplementedTail ==
    <<"'", " ", "n", "o", "t", " ", "i", "m", "p", "l", "e", "m", "e", "n",
      "t", "e", "d">>

ToolErrorText ==
    <<"E", "r", "r", "o", "r", " ", "e", "x", "e", "c", "u", "t", "i", "n",
      "g", " ", "t", "o", "o", "l", ":", " ", "b", "o", "o", "m">>

PySet == [type |-> "set", val |-> <<>>]

(* _execute_tool: the value returned and whether the tool function ran *)
ExecuteTool(tool_implementations, tool_call) ==
    IF tool_call.name \notin DOMAIN tool_implementations
    THEN [ran |-> FALSE,
          result |-> PyStr(NotImplementedHead \o <<tool_call.name>> \o NotImplementedTail)]
    ELSE IF tool_implementations[tool_call.name] = "raises"
    THEN [ran |-> TRUE, result |-> PyStr(ToolErrorText)]
    ELSE IF tool_implementations[tool_call.name] = "returns_set"
    THEN [ran |-> TRUE, result |-> PySet]
    ELSE [ran |-> TRUE, result |-> PyInt(1)]

(* json.dumps of a tool result. The strings dumped here hold no character  *)
(* that JSON escapes.                                                      *)
JsonDumps(value) ==
    IF value.type = "str" THEN Ok(<<"\"">> \o value.val \o <<"\"">>)
    ELSE IF value.type = "int" THEN Ok(value.val)
    ELSE IF value.type = "NoneType" THEN Ok(<<"n", "u", "l", "l">>)
    ELSE Err("TypeError")

RECURSIVE ToolLoop(_, _, _, _, _)
(* for tool_call in response["tool_calls"], lines 465-503, from the i-th   *)
(* tool call on: msgs is self.messages, runs the tool functions run so far *)
ToolLoop(tool_implementations, tool_calls, i, msgs, runs) ==
    IF i > Len(tool_calls) THEN [ok |-> TRUE, exc |-> "", messages |-> msgs, runs |-> runs]
    ELSE LET x == ExecuteTool(tool_implementations, tool_calls[i])
             ran == IF x.ran THEN Append(runs, tool_calls[i].id) ELSE runs
             called == Append(msgs, AssistantToolCall(tool_calls[i]))
             dumped == JsonDumps(x.result)
         IN  IF ~dumped.ok
             THEN [ok |-> FALSE, exc |-> dumped.exc, messages |-> called, runs |-> ran]
             ELSE ToolLoop(tool_implementations, tool_calls, i + 1,
                           Append(called, ToolMessage(tool_calls[i].id, dumped.docs)),
                           ran)

(* The messages passed to the first _call_model, lines 438-460 *)
FirstRequest(a, msgs) == IF IsNova(a) THEN NovaRequest(msgs) ELSE msgs

(* process_message(user_message) with a model that answers first and then  *)
(* second: the history it leaves, its outcome, the requests it sent to the *)
(* model and the tool calls whose function it ran                          *)
ProcessMessageCall(a, user_message, first, second) ==
    LET appended == Append(a.messages, UserMessage(user_message))
        asked == IF IsNova(a) THEN PrependSystem(appended, {"user"}) ELSE appended
        loop == ToolLoop(a.tool_implementations, first.tool_calls, 1, asked, <<>>)
        again == IF IsNova(a) THEN PrependSystem(loop.messages, {"user", "tool"})
                 ELSE loop.messages
        request2 == IF IsNova(a) THEN NovaRequestAfterTools(loop.messages, again)
                    ELSE again
    IN  IF first.tool_calls = <<>>
        THEN [messages |-> Append(asked, AssistantMessage(first.content)),
              outcome |-> Return(first.content),
              requests |-> <<FirstRequest(a, asked)>>,
              tool_runs |-> <<>>]
        ELSE IF ~loop.ok
        THEN [messages |-> loop.messages,
              outcome |-> Raise(loop.exc),
              requests |-> <<FirstRequest(a, asked)>>,
              tool_runs |-> loop.runs]
        ELSE [messages |-> Append(again, AssistantMessage(second.content)),
              outcome |-> Return(second.content),
              requests |-> <<FirstRequest(a, asked), request2>>,
              tool_runs |-> loop.runs]

(* No process_message has been called *)
IdleAgentLog ==
    [op |-> "none", turns |-> 0, before |-> <<>>, first |-> NoResponse,
     model_calls |-> 0, tool_runs |-> <<>>, requests |-> <<>>,
     outcome |-> NoOutcome]

InitAgent ==
    /\ phase = "Uninitialized"
    /\ store = "ok"
    /\ options = CHOOSE o \in ConcurrentOptions : o.similarity_threshold = 0
    /\ collection = CHOOSE c \in ConcurrentCollections : c.raises
    /\ backendOps = {}
    /\ queryCalls = 0
    /\ lastQueries = 0
    /\ lastOp = "none"
    /\ lastText = PyNone
    /\ retrieved = NoOutcome
    /\ combined = NoOutcome
    /\ counted = NoOutcome
    /\ result = NoOutcome
    /\ calls = <<>>
    /\ lastResponse = <<>>
    /\ lastBackend = <<>>
    /\ agent \in {NewAgent(c, p) : c \in AgentConfigs, p \in SystemPromptArgs}
    /\ agentLog = IdleAgentLog
    /\ pending = NoPending

(* register_tool(RegisteredName, f), called before the first message *)
RegisterTool(f) ==
    /\ agentLog.turns = 0
    /\ agent' = [agent EXCEPT !.tool_implementations =
                    [n \in {RegisteredName} |-> f]]
    /\ agentLog' = [agentLog EXCEPT !.op = "register_tool"]
    /\ UNCHANGED <<pending, phase, store, options, collection, backendOps, queryCalls,
                   lastQueries, lastOp, lastText, retrieved, combined, counted,
                   result, calls, lastResponse, lastBackend>>

(* process_message(user_message), run to its return or its exception *)
ProcessMessage(user_message, first, second) ==
    \E r \in {ProcessMessageCall(agent, user_message, first, second)} :
        /\ agentLog.turns < MaxTurns
        /\ agent' = [agent EXCEPT !.messages = r.messages]
        /\ agentLog' = [op |-> "process_message",
                        turns |-> agentLog.turns + 1,
                        before |-> agent.messages,
                        first |-> first,
                        model_calls |-> Len(r.requests),
                        tool_runs |-> r.tool_runs,
                        requests |-> r.requests,
                        outcome |-> r.outcome]
        /\ UNCHANGED <<pending, phase, store, options, collection, backendOps, queryCalls,
                       lastQueries, lastOp, lastText, retrieved, combined, counted,
                       result, calls, lastResponse, lastBackend>>

(* reset() *)
Reset ==
    /\ agent' = [agent EXCEPT !.messages = <<SystemMessage(agent.system_prompt)>>]
    /\ agentLog' = [agentLog EXCEPT !.op = "reset", !.before = agent.messages,
                                    !.first = NoResponse, !.model_calls = 0,
                                    !.tool_runs = <<>>, !.requests = <<>>,
                                    !.outcome = Return(PyNone)]
    /\ UNCHANGED <<pending, phase, store, options, collection, backendOps, queryCalls,
                   lastQueries, lastOp, lastText, retrieved, combined, counted,
                   result, calls, lastResponse, lastBackend>>

NextAgent ==
    \/ \E f \in ToolFunctions : RegisterTool(f)
    \/ \E u \in UserMessages, first \in FirstResponses, second \in SecondResponses :
           ProcessMessage(u, first, second)
    \/ Reset

SpecAgent == InitAgent /\ [][NextAgent]_vars

-----------------------------------------------------------------------------
(* C29 as stated: process_message is append-only on the message history:   *)
(* the role and content of every message that was in self.messages before *)
(* a call are unchanged after it, on every provider, and messages[0]       *)
(* remains the system prompt; reset restores the history to exactly the    *)
(* one system message.                                                     *)
C29_Kept(i) ==
    /\ agent.messages[i].role = agentLog.before[i].role
    /\ agent.messages[i].content = agentLog.before[i].content

C29_HistoryAppendOnly ==
    /\ agentLog.op = "process_message" =>
           /\ Len(agent.messages) > Len(agentLog.before)
           /\ \A i \in 1..Len(agentLog.before) : C29_Kept(i)
           /\ agent.messages[1] = SystemMessage(agent.system_prompt)
    /\ agentLog.op = "reset" =>
           agent.messages = <<SystemMessage(agent.system_prompt)>>

-----------------------------------------------------------------------------
(* C30 as stated: a process_message call invokes the model once if the     *)
(* first response has no tool calls and exactly twice otherwise; every     *)
(* tool call of the first response is executed exactly once, in order; a   *)
(* failing or unregistered tool yields an error string instead of an       *)
(* exception; the history grows by exactly 2 + 2k messages, k the number   *)
(* of tool calls, and ends with an assistant message.                      *)
C30_Registered(tool_calls) ==
    SelectSeq([i \in 1..Len(tool_calls) |-> tool_calls[i].id],
              LAMBDA id : \E i \in 1..Len(tool_calls) :
                  /\ tool_calls[i].id = id
                  /\ tool_calls[i].name \in DOMAIN agent.tool_implementations)

C30_CallsAndGrowth ==
    agentLog.op = "process_message" =>
        /\ agentLog.model_calls = IF agentLog.first.tool_calls = <<>> THEN 1 ELSE 2
        /\ agentLog.tool_runs = C30_Registered(agentLog.first.tool_calls)
        /\ agentLog.outcome.kind = "return"
        /\ Len(agent.messages)
               = Len(agentLog.before) + 2 + 2 * Len(agentLog.first.tool_calls)
        /\ agent.messages[Len(agent.messages)].role = "assistant"
        /\ agent.messages[Len(agent.messages)].tool_calls = <<>>

====
